---- MODULE Spec2Model ----
(***************************************************************************)
(* Verification model of the Jester cryptographic toolkit:                 *)
(*   - the Double-Ratchet session state machine (jester_double_ratchet),   *)
(*   - prime-field arithmetic (jester_maths),                              *)
(*   - Shamir sharing and the share-level protocols (jester_sharing).      *)
(* The key-derivation functions, the Diffie-Hellman scheme and the         *)
(* symmetric cipher are type parameters of the session; they are modelled  *)
(* as free (collision-free) symbolic functions.                            *)
(***************************************************************************)
EXTENDS Integers, Sequences, FiniteSets, TLC

VARIABLES session, wire, outcome, keys, last, inOrder, forged, shamir, mpc, vandermonde, field,
          hash

ratchetVars == <<session, wire, outcome, keys, last, inOrder, forged>>

vars == <<session, wire, outcome, keys, last, inOrder, forged, shamir, mpc, vandermonde, field,
          hash>>

(***************************************************************************)
(* Bounds of the Double-Ratchet exploration.                               *)
(***************************************************************************)
MaxMsgs == 3

MaxForged == 1

MaxHdr == 1

(***************************************************************************)
(* Bounds of the share-level explorations.                                 *)
(***************************************************************************)
MaxThreshold == 3

MaxCount == 4

MaxCoefficient == 2

MaxParties == 3

MaxBatch == 2

MaxSecret == 2

MaxBits == 3
MaxIndex == 2
MaxTerms == 2
MaxDigits == 2
MaxMagnitude == 15

(***************************************************************************)
(* Option<T>: None is the empty sequence, Some(v) the one-element one.     *)
(***************************************************************************)
None == <<>>

Some(v) == <<v>>

IsSome(o) == Len(o) = 1

Unwrap(o) == o[1]

(***************************************************************************)
(* External primitives of the session (trait parameters).                  *)
(***************************************************************************)
\* DHScheme::generate_asymmetrical_key_pair: the rng yields a fresh private
\* key id; the public key of private key k is written k as well.
PublicOf(priv) == priv

\* DHScheme::generate_shared_secret(private, partner_public): symmetric in
\* the two key pairs.
SharedSecret(priv, pub) == {priv, pub}

\* RootKdf::derive_key(chain_key, input) -> (new chain key, output key).
\* A root chain key is the sequence of the inputs absorbed so far; the
\* output key is the head of the message chain seeded by it.
RootDerive(chain_key, input) ==
    [chain |-> Append(chain_key, input),
     out   |-> [path |-> Append(chain_key, input), n |-> 0]]

\* MessageKdf::derive_key_without_input(chain_key) -> (new chain key,
\* message key): the n-th step of a chain yields the message key (path, n).
DeriveWithoutInput(chain_key) ==
    [chain |-> [path |-> chain_key.path, n |-> chain_key.n + 1],
     out   |-> [path |-> chain_key.path, n |-> chain_key.n]]

Garbage == 0

\* EncryptionScheme::encrypt_message / decrypt_message: decryption under
\* another key than the encryption key does not give the plaintext back.
Encrypt(key, plaintext) == [key |-> key, pt |-> plaintext]

Decrypt(key, cipher) == IF cipher.key = key THEN cipher.pt ELSE Garbage

InitialRootKey == <<>>

Party == {"Initiator", "Addressee"}

Peer(p) == IF p = "Initiator" THEN "Addressee" ELSE "Initiator"

(***************************************************************************)
(* DoubleRatchetProtocol<.., State>                                        *)
(***************************************************************************)
Absent ==
    [state |-> "Absent",
     diffie_hellman_public_key |-> 0,
     diffie_hellman_private_key |-> None,
     diffie_hellman_received_key |-> None,
     root_chain_key |-> None,
     sending_chain_key |-> None,
     receiving_chain_key |-> None,
     sending_chain_length |-> 0,
     receiving_chain_length |-> 0,
     previous_sending_chain_length |-> 0,
     previous_receiving_chain_length |-> 0,
     missed_messages |-> {}]

Message(pk, n, pn, m) ==
    [public_key |-> pk, message_number |-> n,
     previous_chain_length |-> pn, message |-> m]

\* initialize_sending: the Initiator session and the hello message.
initialize_sending(fresh, initial_root_chain_key) ==
    [s |-> [state |-> "Initiator",
            diffie_hellman_public_key |-> PublicOf(fresh),
            diffie_hellman_private_key |-> Some(fresh),
            diffie_hellman_received_key |-> None,
            root_chain_key |-> Some(initial_root_chain_key),
            sending_chain_key |-> None,
            receiving_chain_key |-> None,
            sending_chain_length |-> 0,
            receiving_chain_length |-> 0,
            previous_sending_chain_length |-> 0,
            previous_receiving_chain_length |-> 0,
            missed_messages |-> {}],
     msg |-> Message(PublicOf(fresh), 0, 0, None)]

\* initialize_receiving: the Addressee session, Established at once.
initialize_receiving(fresh, received_dh_public_key, initial_root_chain_key) ==
    LET dh_shared_key == SharedSecret(fresh, received_dh_public_key)
        kdf == RootDerive(initial_root_chain_key, dh_shared_key)
    IN [state |-> "Established",
        diffie_hellman_public_key |-> PublicOf(fresh),
        diffie_hellman_private_key |-> Some(fresh),
        diffie_hellman_received_key |-> Some(received_dh_public_key),
        root_chain_key |-> Some(kdf.chain),
        sending_chain_key |-> Some(kdf.out),
        receiving_chain_key |-> None,
        sending_chain_length |-> 0,
        receiving_chain_length |-> 0,
        previous_sending_chain_length |-> 0,
        previous_receiving_chain_length |-> 0,
        missed_messages |-> {}]

\* decrypt_first_message that derives the sending chain from the old private
\* key instead of the fresh one.
decrypt_first_message_old_key(self, fresh, message) ==
    LET generated_dh_shared_key ==
            SharedSecret(Unwrap(self.diffie_hellman_private_key), message.public_key)
        rk1 == RootDerive(Unwrap(self.root_chain_key), generated_dh_shared_key)
        mk == DeriveWithoutInput(rk1.out)
        clear_text == Decrypt(mk.out, Unwrap(message.message))
        rk2 == RootDerive(rk1.chain, generated_dh_shared_key)
    IN [s |-> [state |-> "Established",
               diffie_hellman_public_key |-> PublicOf(fresh),
               diffie_hellman_private_key |-> Some(fresh),
               diffie_hellman_received_key |-> Some(message.public_key),
               root_chain_key |-> Some(rk2.chain),
               sending_chain_key |-> Some(rk2.out),
               receiving_chain_key |-> Some(mk.chain),
               sending_chain_length |-> 0,
               receiving_chain_length |-> 1,
               previous_sending_chain_length |-> 0,
               previous_receiving_chain_length |-> 0,
               missed_messages |-> {}],
        result |-> "Plaintext",
        plaintext |-> clear_text,
        message_key |-> Some(mk.out),
        intermediate_root |-> Some(rk1.chain)]

\* decrypt_first_message: Initiator -> Established on the first response.
decrypt_first_message(self, fresh, message) ==
    LET generated_dh_shared_key ==
            SharedSecret(Unwrap(self.diffie_hellman_private_key), message.public_key)
        rk1 == RootDerive(Unwrap(self.root_chain_key), generated_dh_shared_key)
        mk == DeriveWithoutInput(rk1.out)
        clear_text == Decrypt(mk.out, Unwrap(message.message))
        new_dh_shared_key == SharedSecret(fresh, message.public_key)
        rk2 == RootDerive(rk1.chain, new_dh_shared_key)
    IN [s |-> [state |-> "Established",
               diffie_hellman_public_key |-> PublicOf(fresh),
               diffie_hellman_private_key |-> Some(fresh),
               diffie_hellman_received_key |-> Some(message.public_key),
               root_chain_key |-> Some(rk2.chain),
               sending_chain_key |-> Some(rk2.out),
               receiving_chain_key |-> Some(mk.chain),
               sending_chain_length |-> 0,
               receiving_chain_length |-> 1,
               previous_sending_chain_length |-> 0,
               previous_receiving_chain_length |-> 0,
               missed_messages |-> {}],
        result |-> "Plaintext",
        plaintext |-> clear_text,
        message_key |-> Some(mk.out),
        intermediate_root |-> Some(rk1.chain)]

\* encrypt_message that numbers the message after the increment.
encrypt_message_number_after(self, plaintext) ==
    LET kdf == DeriveWithoutInput(Unwrap(self.sending_chain_key))
        current_message_number == self.sending_chain_length + 1
    IN [s |-> [self EXCEPT !.sending_chain_key = Some(kdf.chain),
                           !.sending_chain_length = @ + 1],
        msg |-> Message(self.diffie_hellman_public_key,
                        current_message_number,
                        self.previous_sending_chain_length,
                        Some(Encrypt(kdf.out, plaintext)))]

\* encrypt_message that takes the sending chain key and never stores the
\* updated one.
encrypt_message_take_only(self, plaintext) ==
    LET kdf == DeriveWithoutInput(Unwrap(self.sending_chain_key))
        current_message_number == self.sending_chain_length
    IN [s |-> [self EXCEPT !.sending_chain_key = None,
                           !.sending_chain_length = @ + 1],
        msg |-> Message(self.diffie_hellman_public_key,
                        current_message_number,
                        self.previous_sending_chain_length,
                        Some(Encrypt(kdf.out, plaintext)))]

\* encrypt_message: one step of the sending chain.
encrypt_message(self, plaintext) ==
    LET kdf == DeriveWithoutInput(Unwrap(self.sending_chain_key))
        current_message_number == self.sending_chain_length
    IN [s |-> [self EXCEPT !.sending_chain_key = Some(kdf.chain),
                           !.sending_chain_length = @ + 1],
        msg |-> Message(self.diffie_hellman_public_key,
                        current_message_number,
                        self.previous_sending_chain_length,
                        Some(Encrypt(kdf.out, plaintext)))]

\* HashMap::insert on missed_messages: one entry per (public key, index).
Insert(missed, pk, index, key) ==
    {e \in missed : ~(e.pk = pk /\ e.index = index)}
        \cup {[pk |-> pk, index |-> index, key |-> key]}

ContainsKey(missed, pk, index) ==
    \E e \in missed : e.pk = pk /\ e.index = index

Get(missed, pk, index) ==
    (CHOOSE e \in missed : e.pk = pk /\ e.index = index).key

Remove(missed, pk, index) ==
    {e \in missed : ~(e.pk = pk /\ e.index = index)}

\* A classification that also rejects a previous_chain_length equal to the
\* receiving chain length.
detect_missing_messages_strict(protocol, message) ==
    IF ~IsSome(protocol.diffie_hellman_received_key)
    THEN [kind |-> "Ok", current |-> 0, next |-> message.message_number]
    ELSE IF message.public_key = Unwrap(protocol.diffie_hellman_received_key)
    THEN IF message.message_number >= protocol.receiving_chain_length
         THEN [kind |-> "Ok",
               current |-> message.message_number - protocol.receiving_chain_length,
               next |-> 0]
         ELSE [kind |-> "OutOfOrder", current |-> 0, next |-> 0]
    ELSE IF message.previous_chain_length > protocol.receiving_chain_length
         THEN [kind |-> "Ok",
               current |-> message.previous_chain_length - protocol.receiving_chain_length,
               next |-> message.message_number]
         ELSE [kind |-> "Illegal", current |-> 0, next |-> 0]

\* detect_missing_messages: classification of an inbound header.
detect_missing_messages(protocol, message) ==
    IF ~IsSome(protocol.diffie_hellman_received_key)
    THEN [kind |-> "Ok", current |-> 0, next |-> message.message_number]
    ELSE IF message.public_key = Unwrap(protocol.diffie_hellman_received_key)
    THEN IF message.message_number >= protocol.receiving_chain_length
         THEN [kind |-> "Ok",
               current |-> message.message_number - protocol.receiving_chain_length,
               next |-> 0]
         ELSE [kind |-> "OutOfOrder", current |-> 0, next |-> 0]
    ELSE IF message.previous_chain_length >= protocol.receiving_chain_length
         THEN [kind |-> "Ok",
               current |-> message.previous_chain_length - protocol.receiving_chain_length,
               next |-> message.message_number]
         ELSE [kind |-> "Illegal", current |-> 0, next |-> 0]

Outcome(s, result, plaintext, used_rng) ==
    [s |-> s, result |-> result, plaintext |-> plaintext, used_rng |-> used_rng]

\* An OutOfOrderMessage arm that counts the message in the receiving chain.
decrypt_out_of_order_counted(self, message) ==
    IF ~ContainsKey(self.missed_messages, message.public_key, message.message_number)
    THEN Outcome(self, "UnknownMessage", Garbage, FALSE)
    ELSE LET message_key ==
                 Get(self.missed_messages, message.public_key, message.message_number)
         IN Outcome([self EXCEPT !.missed_messages =
                         Remove(@, message.public_key, message.message_number),
                                 !.receiving_chain_length = @ + 1],
                    "OutOfOrder",
                    Decrypt(message_key, Unwrap(message.message)),
                    FALSE)

\* decrypt_message, the OutOfOrderMessage arm: look the stored key up.
decrypt_out_of_order(self, message) ==
    IF ~ContainsKey(self.missed_messages, message.public_key, message.message_number)
    THEN Outcome(self, "UnknownMessage", Garbage, FALSE)
    ELSE LET message_key ==
                 Get(self.missed_messages, message.public_key, message.message_number)
         IN Outcome([self EXCEPT !.missed_messages =
                         Remove(@, message.public_key, message.message_number)],
                    "OutOfOrder",
                    Decrypt(message_key, Unwrap(message.message)),
                    FALSE)

\* A rejection that has already reset the receiving chain length.
reject_header_after_reset(self, message) ==
    Outcome([self EXCEPT !.receiving_chain_length = 0],
            "InvalidMessageHeader", Garbage, FALSE)

\* decrypt_message, the IllegalMessageHeader arm.
reject_header(self, message) ==
    Outcome(self, "InvalidMessageHeader", Garbage, FALSE)

\* decrypt_message, first loop: store the keys of the messages skipped in
\* the current receiving chain.
RECURSIVE skip_current_chain(_, _)
skip_current_chain(self, current_chain_missed_messages) ==
    IF current_chain_missed_messages = 0 THEN self
    ELSE LET kdf == DeriveWithoutInput(Unwrap(self.receiving_chain_key))
             length == self.receiving_chain_length + 1
         IN skip_current_chain(
                [self EXCEPT !.receiving_chain_key = Some(kdf.chain),
                             !.receiving_chain_length = length,
                             !.missed_messages =
                                 Insert(@, Unwrap(self.diffie_hellman_received_key),
                                        length, kdf.out)],
                current_chain_missed_messages - 1)

\* decrypt_message, second loop: store the keys of the messages skipped in
\* the chain the message opens. acc = [chain, length, missed].
RECURSIVE skip_next_chain(_, _, _)
skip_next_chain(acc, public_key, next_chain_missed_messages) ==
    IF next_chain_missed_messages = 0 THEN acc
    ELSE LET kdf == DeriveWithoutInput(acc.chain)
             length == acc.length + 1
         IN skip_next_chain(
                [chain |-> kdf.chain, length |-> length,
                 missed |-> Insert(acc.missed, public_key, length, kdf.out)],
                public_key, next_chain_missed_messages - 1)

\* The new-key branch without the record of the replaced sending chain's
\* length.
ratchet_step_keep_previous(self, fresh, message, next_chain_missed_messages) ==
    LET generated_dh_private_key ==
            SharedSecret(Unwrap(self.diffie_hellman_private_key), message.public_key)
        rk1 == RootDerive(Unwrap(self.root_chain_key), generated_dh_private_key)
        skipped == skip_next_chain(
                       [chain |-> rk1.out, length |-> 0,
                        missed |-> self.missed_messages],
                       message.public_key, next_chain_missed_messages)
        mk == DeriveWithoutInput(skipped.chain)
        new_dh_shared_key == SharedSecret(fresh, message.public_key)
        rk2 == RootDerive(rk1.chain, new_dh_shared_key)
    IN [s |-> [self EXCEPT
                 !.missed_messages = skipped.missed,
                 !.receiving_chain_key = Some(mk.chain),
                 !.sending_chain_key = Some(rk2.out),
                 !.diffie_hellman_public_key = PublicOf(fresh),
                 !.diffie_hellman_private_key = Some(fresh),
                 !.root_chain_key = Some(rk2.chain),
                 !.previous_receiving_chain_length = skipped.length,
                 !.sending_chain_length = 0,
                 !.receiving_chain_length = 1],
        message_key |-> mk.out]

\* decrypt_message, the branch of a message that carries a new public key:
\* new receiving chain, fresh key pair, new sending chain.
ratchet_step(self, fresh, message, next_chain_missed_messages) ==
    LET generated_dh_private_key ==
            SharedSecret(Unwrap(self.diffie_hellman_private_key), message.public_key)
        rk1 == RootDerive(Unwrap(self.root_chain_key), generated_dh_private_key)
        skipped == skip_next_chain(
                       [chain |-> rk1.out, length |-> 0,
                        missed |-> self.missed_messages],
                       message.public_key, next_chain_missed_messages)
        mk == DeriveWithoutInput(skipped.chain)
        new_dh_shared_key == SharedSecret(fresh, message.public_key)
        rk2 == RootDerive(rk1.chain, new_dh_shared_key)
    IN [s |-> [self EXCEPT
                 !.missed_messages = skipped.missed,
                 !.receiving_chain_key = Some(mk.chain),
                 !.sending_chain_key = Some(rk2.out),
                 !.diffie_hellman_public_key = PublicOf(fresh),
                 !.diffie_hellman_private_key = Some(fresh),
                 !.root_chain_key = Some(rk2.chain),
                 !.previous_receiving_chain_length = skipped.length,
                 !.previous_sending_chain_length = self.sending_chain_length,
                 !.sending_chain_length = 0,
                 !.receiving_chain_length = 1],
        message_key |-> mk.out]

\* decrypt_message, the branch of a message of the current chain.
same_chain_step(self) ==
    LET kdf == DeriveWithoutInput(Unwrap(self.receiving_chain_key))
    IN [s |-> [self EXCEPT !.receiving_chain_key = Some(kdf.chain),
                           !.receiving_chain_length = @ + 1],
        message_key |-> kdf.out]

\* decrypt_message. An unwrap() of an empty receiving chain aborts the call
\* (result "Panic"); nothing has been assigned at that point.
decrypt_message(self, fresh, message) ==
    LET d == detect_missing_messages(self, message)
    IN IF d.kind = "Illegal" THEN reject_header(self, message)
       ELSE IF d.kind = "OutOfOrder" THEN decrypt_out_of_order(self, message)
       ELSE IF d.current > 0 /\ ~IsSome(self.receiving_chain_key)
       THEN Outcome(self, "Panic", Garbage, FALSE)
       ELSE LET skipped == skip_current_chain(self, d.current)
            IN IF ~IsSome(skipped.diffie_hellman_received_key)
                  \/ message.public_key # Unwrap(skipped.diffie_hellman_received_key)
               THEN LET r == ratchet_step(skipped, fresh, message, d.next)
                    IN Outcome(r.s, "Plaintext",
                               Decrypt(r.message_key, Unwrap(message.message)), TRUE)
               ELSE IF ~IsSome(skipped.receiving_chain_key)
               THEN Outcome(skipped, "Panic", Garbage, FALSE)
               ELSE LET r == same_chain_step(skipped)
                    IN Outcome(r.s, "Plaintext",
                               Decrypt(r.message_key, Unwrap(message.message)), FALSE)

(***************************************************************************)
(* The two sessions, the messages sent so far and what became of them.     *)
(***************************************************************************)
\* The plaintext of the message that takes position i on the wire: every
\* message carries a plaintext of its own.
PlaintextOf(i) == i

\* A ciphertext that no session key decrypts.
ForgedCipher == [key |-> [path |-> <<>>, n |-> 0], pt |-> Garbage]

Last(op, party, idx, result, plaintext, message_key, root) ==
    [op |-> op, party |-> party, idx |-> idx, result |-> result,
     plaintext |-> plaintext, message_key |-> message_key, root |-> root]

Sent(p) == {i \in 1..Len(wire) : wire[i].from = p}

Delivered(i) == IsSome(outcome[i])

\* The sharing side before any call.
ShamirIdle ==
    [pc |-> "idle", secret |-> 0, count |-> 0, threshold |-> 0,
     shares |-> <<>>, picked |-> <<>>, result |-> 0]

MpcIdle == [pc |-> "idle", op |-> "none"]

\* No field operation has been called yet.
FieldIdle == [pc |-> "idle"]

\* No hash has been begun and no keyed function has been called.
HashIdle == [pc |-> "idle"]

\* The two look-ups that can run at the same time.
Callers == {"first", "second"}

\* The memo tables are empty and no look-up is running.
VandermondeIdle ==
    [upper |-> {}, lower |-> {},
     guards |-> [upper |-> "free", lower |-> "free"],
     callers |-> [c \in Callers |-> [pc |-> "idle"]]]

RatchetInit ==
    LET c == initialize_sending(1, InitialRootKey)
    IN /\ session = [p \in Party |-> IF p = "Initiator" THEN c.s ELSE Absent]
       /\ wire = <<[from |-> "Initiator", msg |-> c.msg, pt |-> Garbage]>>
       /\ outcome = <<None>>
       /\ keys = 2
       /\ last = Last("initialize_sending", "Initiator", 1, "Hello", Garbage, None, None)
       /\ inOrder = TRUE
       /\ forged = 0
       /\ shamir = ShamirIdle
       /\ mpc = MpcIdle
       /\ vandermonde = VandermondeIdle
       /\ field = FieldIdle /\ hash = HashIdle

\* The Addressee receives the hello and creates its session.
ReceiveHello ==
    /\ session["Addressee"].state = "Absent"
    /\ session' = [session EXCEPT !["Addressee"] =
           initialize_receiving(keys, wire[1].msg.public_key, InitialRootKey)]
    /\ keys' = keys + 1
    /\ outcome' = [outcome EXCEPT ![1] = Some([result |-> "Hello", plaintext |-> Garbage])]
    /\ last' = Last("initialize_receiving", "Addressee", 1, "Hello", Garbage, None, None)
    /\ UNCHANGED <<wire, inOrder, forged>>

\* An Established party encrypts a message and puts it on the wire.
Send(p) ==
    /\ session[p].state = "Established"
    /\ Len(wire) <= MaxMsgs
    /\ LET pt == PlaintextOf(Len(wire) + 1)
           r == encrypt_message(session[p], pt)
       IN /\ session' = [session EXCEPT ![p] = r.s]
          /\ wire' = Append(wire, [from |-> p, msg |-> r.msg, pt |-> pt])
          /\ outcome' = Append(outcome, None)
          /\ last' = Last("encrypt_message", p, Len(wire) + 1, "Sent", pt,
                          Some(Unwrap(r.msg.message).key), None)
    /\ UNCHANGED <<keys, inOrder, forged>>

EarlierDelivered(i) ==
    \A j \in 1..(i - 1) : wire[j].from = wire[i].from => Delivered(j)

\* The Initiator receives a message while still in the Initiator phase.
DeliverFirst(i) ==
    /\ i \in 2..Len(wire) /\ ~Delivered(i)
    /\ wire[i].from = "Addressee"
    /\ session["Initiator"].state = "Initiator"
    /\ LET r == decrypt_first_message(session["Initiator"], keys, wire[i].msg)
       IN /\ session' = [session EXCEPT !["Initiator"] = r.s]
          /\ outcome' = [outcome EXCEPT ![i] =
                 Some([result |-> r.result, plaintext |-> r.plaintext])]
          /\ last' = Last("decrypt_first_message", "Initiator", i, r.result,
                          r.plaintext, r.message_key, r.intermediate_root)
    /\ keys' = keys + 1
    /\ inOrder' = (inOrder /\ EarlierDelivered(i))
    /\ UNCHANGED <<wire, forged>>

\* An Established party receives a message its peer sent.
Deliver(i) ==
    /\ i \in 2..Len(wire) /\ ~Delivered(i)
    /\ session[Peer(wire[i].from)].state = "Established"
    /\ LET p == Peer(wire[i].from)
           r == decrypt_message(session[p], keys, wire[i].msg)
       IN /\ session' = [session EXCEPT ![p] = r.s]
          /\ outcome' = [outcome EXCEPT ![i] =
                 Some([result |-> r.result, plaintext |-> r.plaintext])]
          /\ last' = Last("decrypt_message", p, i, r.result, r.plaintext, None, None)
          /\ keys' = IF r.used_rng THEN keys + 1 ELSE keys
    /\ inOrder' = (inOrder /\ EarlierDelivered(i))
    /\ UNCHANGED <<wire, forged>>

\* An Established party receives a message with an arbitrary header.
Forge(p, pk, n, pn) ==
    /\ forged < MaxForged
    /\ session[p].state = "Established"
    /\ LET r == decrypt_message(session[p], keys, Message(pk, n, pn, Some(ForgedCipher)))
       IN /\ session' = [session EXCEPT ![p] = r.s]
          /\ last' = Last("decrypt_message", p, 0, r.result, r.plaintext, None, None)
          /\ keys' = IF r.used_rng THEN keys + 1 ELSE keys
    /\ forged' = forged + 1
    /\ UNCHANGED <<wire, outcome, inOrder>>

\* The public keys a forged header carries: one nobody owns (0), the key the
\* receiver tracks, and the current key of the peer.
ForgedKeys(p) ==
    {0, session[Peer(p)].diffie_hellman_public_key}
        \cup {session[p].diffie_hellman_received_key[k] :
                  k \in 1..Len(session[p].diffie_hellman_received_key)}

RatchetNext ==
    \/ ReceiveHello
    \/ \E p \in Party : Send(p)
    \/ \E i \in 2..Len(wire) : DeliverFirst(i)
    \/ \E i \in 2..Len(wire) : Deliver(i)
    \/ \E p \in Party, n \in 0..MaxHdr, pn \in 0..MaxHdr :
           \E pk \in ForgedKeys(p) : Forge(p, pk, n, pn)

Init == RatchetInit

Next == RatchetNext /\ UNCHANGED <<shamir, mpc, vandermonde, field, hash>>

Spec == Init /\ [][Next]_vars

\* An Established party receives once more a message it has accepted.  The
\* repeated delivery is made by the adversary and is counted with the
\* forged ones.
Replay(i) ==
    /\ forged < MaxForged
    /\ i \in 2..Len(wire) /\ Delivered(i)
    /\ Unwrap(outcome[i]).result \in {"Plaintext", "OutOfOrder"}
    /\ session[Peer(wire[i].from)].state = "Established"
    /\ LET p == Peer(wire[i].from)
           r == decrypt_message(session[p], keys, wire[i].msg)
       IN /\ session' = [session EXCEPT ![p] = r.s]
          /\ last' = Last("decrypt_message", p, i, r.result, r.plaintext, None, None)
          /\ keys' = IF r.used_rng THEN keys + 1 ELSE keys
    /\ forged' = forged + 1
    /\ UNCHANGED <<wire, outcome, inOrder>>

ReplayNext ==
    /\ UNCHANGED <<shamir, mpc, vandermonde, field, hash>>
    /\ \/ ReceiveHello
       \/ \E p \in Party : Send(p)
       \/ \E i \in 2..Len(wire) : DeliverFirst(i)
       \/ \E i \in 2..Len(wire) : Deliver(i)
       \/ \E i \in 2..Len(wire) : Replay(i)

SpecReplay == Init /\ [][ReplayNext]_vars

(***************************************************************************)
(* Prime-field element: prime_fields!(TestPrimeField("7", 10)).            *)
(***************************************************************************)
P == 7

Field == 0..(P - 1)

\* PrimeField::field_prime(): the element that holds the prime itself.
field_prime == P

Zero == 0

One == 1

\* From<BigUint>: reduce modulo the prime.
FromBigUint(v) == v % P

add(a, b) == (a + b) % P

\* A subtraction that takes the distance of the two residues.
sub_distance(a, b) == IF a >= b THEN (a - b) % P ELSE (b - a) % P

\* Sub: when self < rhs the difference is formed as self + (prime - rhs).
RECURSIVE sub(_, _)
sub(a, b) ==
    IF a >= b THEN (a - b) % P
    ELSE LET inverse == sub(field_prime, b) IN (a + inverse) % P

mul(a, b) == (a * b) % P

\* Div: integer quotient of the residues.
div(a, b) == (a \div b) % P

rem(a, b) == a % b

\* BigUint subtraction panics when the difference would be negative, BigUint
\* division and remainder panic on a zero divisor.
biguint_underflow(x, y) == x < y

RECURSIVE sub_panics(_, _)
sub_panics(a, b) ==
    IF a >= b THEN biguint_underflow(a, b) ELSE sub_panics(field_prime, b)

div_panics(a, b) == b = 0

rem_panics(a, b) == b = 0

\* A from_i64 that drops the sign of a negative argument.
from_i64_magnitude(n) == IF n < 0 THEN FromBigUint(-n) ELSE FromBigUint(n)

\* FromPrimitive::from_i64 (from_isize delegates to it).
from_i64(n) ==
    IF n < 0 THEN sub(field_prime, FromBigUint(-n)) ELSE FromBigUint(n)

\* PrimeField::extended_greatest_common_divisor -> <<d, s, t>>.
RECURSIVE extended_greatest_common_divisor(_, _)
extended_greatest_common_divisor(a, b) ==
    IF b = 0 THEN <<a, One, Zero>>
    ELSE LET r == extended_greatest_common_divisor(b, rem(a, b))
             delta == mul(div(a, b), r[3])
         IN <<r[1], r[3], sub(r[2], delta)>>

\* PrimeField::inverse, evaluated once for every residue (and the prime).
inverse_of == [a \in 0..P |-> extended_greatest_common_divisor(field_prime, a)[3]]

\* An inverse that returns the coefficient of the prime.
inverse_coefficient(a) == extended_greatest_common_divisor(field_prime, a)[2]

inverse(a) == inverse_of[a]

\* std::iter::Sum / Product for field elements.
RECURSIVE sum(_)
sum(xs) == IF xs = <<>> THEN Zero ELSE add(sum(SubSeq(xs, 1, Len(xs) - 1)), xs[Len(xs)])

RECURSIVE product(_)
product(xs) ==
    IF xs = <<>> THEN One ELSE mul(product(SubSeq(xs, 1, Len(xs) - 1)), xs[Len(xs)])

\* num::pow::pow on usize.
RECURSIVE pow(_, _)
pow(x, e) == IF e = 0 THEN 1 ELSE x * pow(x, e - 1)

\* Iterator::collect into a Vec: the members are evaluated once and stored.
collect(xs) == xs \o <<>>

Map(f(_), xs) == collect([k \in 1..Len(xs) |-> f(xs[k])])

(***************************************************************************)
(* Shamir sharing: a share is <<evaluation point, value>>.                 *)
(***************************************************************************)
\* LinearSharingScheme for (usize, T). The assert_eq! on the evaluation
\* points aborts the call; the abort is the result "Abort".
add_shares(lhs, rhs) ==
    IF lhs[1] # rhs[1] THEN "Abort" ELSE <<lhs[1], add(lhs[2], rhs[2])>>

sub_shares(lhs, rhs) ==
    IF lhs[1] # rhs[1] THEN "Abort" ELSE <<lhs[1], sub(lhs[2], rhs[2])>>

\* An add_scalar that weights the scalar with the evaluation point.
add_scalar_weighted(share, scalar) == <<share[1], add(share[2], mul(scalar, share[1]))>>

add_scalar(share, scalar) == <<share[1], add(share[2], scalar)>>

sub_scalar(share, scalar) == <<share[1], sub(share[2], scalar)>>

multiply_scalar(share, scalar) == <<share[1], mul(share[2], scalar)>>

\* A sum_shares that takes the point of the first share without the assert.
sum_shares_first_point(shares) ==
    IF shares = <<>> THEN None
    ELSE Some(<<shares[1][1], sum(Map(LAMBDA sh : sh[2], shares))>>)

\* sum_shares: None on an empty slice, an abort when the points differ.
sum_shares(shares) ==
    IF shares = <<>> THEN None
    ELSE IF \E k \in 1..Len(shares) : shares[k][1] # shares[1][1] THEN "Abort"
    ELSE Some(<<shares[1][1], sum(Map(LAMBDA sh : sh[2], shares))>>)

\* The fold of generate_shares over the polynomial: coefficient number
\* index is multiplied by x^index, formed in usize and then reduced.
RECURSIVE evaluate_polynomial(_, _, _)
evaluate_polynomial(polynomial, secret, x) ==
    IF polynomial = <<>> THEN secret
    ELSE LET index == Len(polynomial)
             akk == evaluate_polynomial(SubSeq(polynomial, 1, index - 1), secret, x)
         IN add(akk, mul(polynomial[index], FromBigUint(pow(x, index))))

\* generate_shares: polynomial holds the threshold - 1 members the rng
\* yields; assert!(threshold > 1) aborts the call otherwise.
generate_shares(polynomial, secret, count, threshold) ==
    IF ~(threshold > 1) THEN "Abort"
    ELSE collect([x \in 1..count |-> <<x, evaluate_polynomial(polynomial, secret, x)>>])

\* The Lagrange factor of the share at point i: the product runs over every
\* share of the slice whose point differs from i.
lagrange_factor(shares, i) ==
    product(Map(LAMBDA sh : mul(from_i64(-sh[1]), inverse(from_i64(i - sh[1]))),
                SelectSeq(shares, LAMBDA sh : sh[1] # i)))

\* reconstruct_secret: the sum runs over the first threshold shares.
reconstruct_secret(shares, threshold) ==
    LET taken == SubSeq(shares, 1, IF threshold < Len(shares) THEN threshold ELSE Len(shares))
    IN sum(Map(LAMBDA sh : mul(sh[2], lagrange_factor(shares, sh[1])), taken))

\* All sequences of the given length over a set.
Tuples(S, n) == [1..n -> S]

\* The values the rng is let to yield.
Coefficients == 0..MaxCoefficient

\* The orderings of len distinct positions among 1..count.
Selections(count, len) ==
    {sel \in Tuples(1..count, len) : \A a, b \in 1..len : a # b => sel[a] # sel[b]}

\* generate_shares(rng, secret, count, threshold) with the members the rng
\* yields.
GenerateShares(secret, count, threshold, polynomial) ==
    /\ shamir.pc = "idle"
    /\ shamir' = [shamir EXCEPT !.pc = "shared", !.secret = secret,
                                !.count = count, !.threshold = threshold,
                                !.shares = generate_shares(polynomial, secret, count, threshold)]

\* reconstruct_secret on a selection of the generated shares.
ReconstructSecret(sel) ==
    /\ shamir.pc = "shared"
    /\ LET picked == [k \in 1..Len(sel) |-> shamir.shares[sel[k]]]
       IN shamir' = [shamir EXCEPT !.pc = "reconstructed", !.picked = picked,
                                   !.result = reconstruct_secret(picked, shamir.threshold)]

RatchetIdle ==
    /\ session = [p \in Party |-> Absent]
    /\ wire = <<>>
    /\ outcome = <<>>
    /\ keys = 1
    /\ last = Last("none", "Initiator", 0, "None", Garbage, None, None)
    /\ inOrder = TRUE
    /\ forged = 0

ShamirInit == RatchetIdle /\ shamir = ShamirIdle /\ mpc = MpcIdle /\ vandermonde = VandermondeIdle /\ field = FieldIdle /\ hash = HashIdle

ShamirNext ==
    /\ UNCHANGED <<ratchetVars, mpc, vandermonde, field, hash>>
    /\ \/ /\ shamir.pc = "idle"
          /\ \E threshold \in 2..MaxThreshold, count \in 2..MaxCount, secret \in Field :
                 /\ count >= threshold
                 /\ \E polynomial \in Tuples(Field, threshold - 1) :
                        GenerateShares(secret, count, threshold, polynomial)
       \/ /\ shamir.pc = "shared"
          /\ \E sel \in Selections(shamir.count, shamir.threshold) : ReconstructSecret(sel)

SpecShamir == ShamirInit /\ [][ShamirNext]_vars

\* reconstruct_secret called with more shares than the threshold.
SurplusInit == RatchetIdle /\ shamir = ShamirIdle /\ mpc = MpcIdle /\ vandermonde = VandermondeIdle /\ field = FieldIdle /\ hash = HashIdle

SurplusNext ==
    /\ UNCHANGED <<ratchetVars, mpc, vandermonde, field, hash>>
    /\ \/ /\ shamir.pc = "idle"
          /\ \E threshold \in 2..MaxThreshold, count \in 3..MaxCount, secret \in Field :
                 /\ count > threshold
                 /\ \E polynomial \in Tuples(Coefficients, threshold - 1) :
                        GenerateShares(secret, count, threshold, polynomial)
       \/ /\ shamir.pc = "shared"
          /\ \E m \in (shamir.threshold + 1)..shamir.count :
                 \E sel \in Selections(shamir.count, m) : ReconstructSecret(sel)

SpecSurplus == SurplusInit /\ [][SurplusNext]_vars

(***************************************************************************)
(* generate_shares with the powers of the evaluation points formed in a    *)
(* machine word.  A usize is the sequence of its bytes, lowest first, and  *)
(* the flag that a multiplication left the word.                           *)
(***************************************************************************)
\* size_of::<usize>() on a 64-bit target and the values of a byte.
WordBytes == 8

ByteValues == 256

\* The highest degree of a polynomial and, one more, the highest count.
MaxDegree == 16

word_one == [bytes |-> [k \in 1..WordBytes |-> IF k = 1 THEN 1 ELSE 0],
             overflow |-> FALSE]

\* usize * usize with the factor below a byte: the product byte by byte.
RECURSIVE mul_bytes(_, _, _)
mul_bytes(bytes, factor, carry) ==
    IF bytes = <<>> THEN [bytes |-> <<>>, carry |-> carry]
    ELSE LET v == bytes[1] * factor + carry
             rest == mul_bytes(Tail(bytes), factor, v \div ByteValues)
         IN [bytes |-> <<v % ByteValues>> \o rest.bytes, carry |-> rest.carry]

\* The product reduced to the word; overflow tells that it left the word.
wrapping_mul(word, factor) ==
    LET r == mul_bytes(word.bytes, factor, 0)
    IN [bytes |-> r.bytes, overflow |-> word.overflow \/ r.carry # 0]

\* x^0 .. x^e as words.
RECURSIVE power_row(_, _)
power_row(x, e) ==
    IF e = 0 THEN <<word_one>>
    ELSE LET row == power_row(x, e - 1)
         IN Append(row, wrapping_mul(row[e], x))

usize_powers == collect([x \in 1..(MaxDegree + 1) |-> power_row(x, MaxDegree)])

\* num::pow::pow(x, e) on usize.
pow_usize(x, e) == usize_powers[x][e + 1]

\* BigUint::from_usize(..).unwrap().into(): the word reduced by the prime.
RECURSIVE from_usize(_)
from_usize(bytes) ==
    IF bytes = <<>> THEN Zero
    ELSE (bytes[1] + ByteValues * from_usize(Tail(bytes))) % P

\* The fold of generate_shares with the power taken from the word.
RECURSIVE evaluate_polynomial_usize(_, _, _)
evaluate_polynomial_usize(polynomial, secret, x) ==
    IF polynomial = <<>> THEN secret
    ELSE LET index == Len(polynomial)
             akk == evaluate_polynomial_usize(SubSeq(polynomial, 1, index - 1), secret, x)
         IN add(akk, mul(polynomial[index], from_usize(pow_usize(x, index).bytes)))

\* A power of generate_shares leaves the word.
pow_overflows(count, threshold) ==
    \E x \in 1..count, index \in 1..(threshold - 1) : pow_usize(x, index).overflow

\* generate_shares. A multiplication that leaves the word aborts the call in
\* a build with overflow checks and wraps in a build without.
generate_shares_usize(polynomial, secret, count, threshold, overflow_checks) ==
    IF ~(threshold > 1) THEN "Abort"
    ELSE IF overflow_checks /\ pow_overflows(count, threshold) THEN "Abort"
    ELSE collect([x \in 1..count |-> <<x, evaluate_polynomial_usize(polynomial, secret, x)>>])

\* generate_shares with a polynomial whose leading member is lead and whose
\* other members are low.
GenerateSharesUsize(secret, count, threshold, lead, low, overflow_checks) ==
    /\ shamir.pc = "idle"
    /\ LET polynomial == [k \in 1..(threshold - 1) |->
                              IF k = threshold - 1 THEN lead ELSE low]
       IN shamir' = [pc |-> "shared", secret |-> secret, count |-> count,
                     threshold |-> threshold, polynomial |-> polynomial,
                     overflow_checks |-> overflow_checks,
                     shares |-> generate_shares_usize(polynomial, secret, count,
                                                      threshold, overflow_checks)]

PowersInit == RatchetIdle /\ shamir = ShamirIdle /\ mpc = MpcIdle /\ vandermonde = VandermondeIdle /\ field = FieldIdle /\ hash = HashIdle

PowersNext ==
    /\ UNCHANGED <<ratchetVars, mpc, vandermonde, field, hash>>
    /\ shamir.pc = "idle"
    /\ \E threshold \in 2..(MaxDegree + 1), secret \in Field, lead, low \in Coefficients,
          overflow_checks \in BOOLEAN :
          \E count \in threshold..(MaxDegree + 1) :
              GenerateSharesUsize(secret, count, threshold, lead, low, overflow_checks)

SpecPowers == PowersInit /\ [][PowersNext]_vars

\* generate_shares called with any count and any threshold, those the
\* documentation excludes included.
ThresholdInit == RatchetIdle /\ shamir = ShamirIdle /\ mpc = MpcIdle /\ vandermonde = VandermondeIdle /\ field = FieldIdle /\ hash = HashIdle

ThresholdNext ==
    /\ UNCHANGED <<ratchetVars, mpc, vandermonde, field, hash>>
    /\ shamir.pc = "idle"
    /\ \E threshold \in 0..MaxThreshold, count \in 0..MaxCount, secret \in Field :
          \E polynomial \in Tuples(Field, IF threshold > 1 THEN threshold - 1 ELSE 0) :
              GenerateShares(secret, count, threshold, polynomial)

SpecThreshold == ThresholdInit /\ [][ThresholdNext]_vars

(***************************************************************************)
(* Joint protocols.  A sharing is the sequence of the parties' shares of   *)
(* one secret: party i holds sharing[i] = <<i, value>>.  A protocol call   *)
(* is made by every party on the own share; the model computes the calls   *)
(* of all parties together and lets the rounds of the transport join them. *)
(***************************************************************************)
\* BeaverCommunicationScheme::get_reconstruction_threshold of TestProtocol.
Threshold == 2

PartyCounts == Threshold..MaxParties

\* The secrets of the batched calls.
Secrets == 0..MaxSecret

\* The members the rng yields for the draw-th polynomial of a call.
Polynomial(seed, draw) == [i \in 1..(Threshold - 1) |-> (seed + draw + i) % P]

\* One secret shared among n parties.
Share(secret, polynomial, n) == generate_shares(polynomial, secret, n, Threshold)

\* CliqueCommunicationScheme::reveal_shares, made by every party on the own
\* share: the secret is reconstructed from a threshold of the shares.
reveal_shares(sharing) == reconstruct_secret(SubSeq(sharing, 1, Threshold), Threshold)

\* BeaverCommunicationScheme::obtain_beaver_triples: shares of a, b and
\* c = a * b.
BeaverTriple(a, b, seed, n) ==
    [a |-> Share(a, Polynomial(seed, 2), n),
     b |-> Share(b, Polynomial(seed, 3), n),
     c |-> Share(mul(a, b), Polynomial(seed, 4), n)]

\* A multiply that subtracts epsilon * delta.
multiply_sub_scalar(lhs, rhs, triple) ==
    LET epsilon_share == collect([i \in 1..Len(lhs) |-> sub_shares(lhs[i], triple.a[i])])
        delta_share == collect([i \in 1..Len(rhs) |-> sub_shares(rhs[i], triple.b[i])])
        delta == reveal_shares(delta_share)
        epsilon == reveal_shares(epsilon_share)
    IN collect([i \in 1..Len(lhs) |->
           sub_scalar(add_shares(add_shares(triple.c[i],
                                            multiply_scalar(triple.b[i], epsilon)),
                                 multiply_scalar(triple.a[i], delta)),
                      mul(epsilon, delta))])

\* A multiply that weights [b] with delta and [a] with epsilon.
multiply_swapped(lhs, rhs, triple) ==
    LET epsilon_share == collect([i \in 1..Len(lhs) |-> sub_shares(lhs[i], triple.a[i])])
        delta_share == collect([i \in 1..Len(rhs) |-> sub_shares(rhs[i], triple.b[i])])
        delta == reveal_shares(delta_share)
        epsilon == reveal_shares(epsilon_share)
    IN collect([i \in 1..Len(lhs) |->
           add_scalar(add_shares(add_shares(triple.c[i],
                                            multiply_scalar(triple.b[i], delta)),
                                 multiply_scalar(triple.a[i], epsilon)),
                      mul(epsilon, delta))])

\* BeaverRerandomizationMultiplication::multiply.
multiply(lhs, rhs, triple) ==
    LET epsilon_share == collect([i \in 1..Len(lhs) |-> sub_shares(lhs[i], triple.a[i])])
        delta_share == collect([i \in 1..Len(rhs) |-> sub_shares(rhs[i], triple.b[i])])
        delta == reveal_shares(delta_share)
        epsilon == reveal_shares(epsilon_share)
    IN collect([i \in 1..Len(lhs) |->
           add_scalar(add_shares(add_shares(triple.c[i],
                                            multiply_scalar(triple.b[i], epsilon)),
                                 multiply_scalar(triple.a[i], delta)),
                      mul(epsilon, delta))])

\* An unbounded_multiply that joins the revealed values in the order the
\* reveals finish, the last pair first.
unbounded_multiply_completion_order(pairs, beaver_triples) ==
    LET zipped == IF Len(pairs) < Len(beaver_triples) THEN Len(pairs) ELSE Len(beaver_triples)
        n == Len(pairs[1][1])
        revealed ==
            collect([k \in 1..zipped |->
                LET epsilon_share == collect([i \in 1..n |-> sub_shares(pairs[k][1][i], beaver_triples[k].a[i])])
                    delta_share == collect([i \in 1..n |-> sub_shares(pairs[k][2][i], beaver_triples[k].b[i])])
                IN [delta |-> reveal_shares(delta_share), epsilon |-> reveal_shares(epsilon_share)]])
        joined == collect([k \in 1..zipped |-> revealed[zipped + 1 - k]])
    IN IF pairs = <<>> THEN <<>>
       ELSE collect([k \in 1..zipped |->
                collect([i \in 1..n |->
                    add_scalar(add_shares(add_shares(beaver_triples[k].c[i],
                                                     multiply_scalar(beaver_triples[k].b[i], joined[k].epsilon)),
                                          multiply_scalar(beaver_triples[k].a[i], joined[k].delta)),
                               mul(joined[k].epsilon, joined[k].delta))])])

\* BeaverRerandomizationMultiplication::unbounded_multiply: pairs[k] is
\* <<lhs sharing, rhs sharing>>, zipped with the triples in their order.
unbounded_multiply(pairs, beaver_triples) ==
    LET zipped == IF Len(pairs) < Len(beaver_triples) THEN Len(pairs) ELSE Len(beaver_triples)
        n == Len(pairs[1][1])
        revealed ==
            collect([k \in 1..zipped |->
                LET epsilon_share == collect([i \in 1..n |-> sub_shares(pairs[k][1][i], beaver_triples[k].a[i])])
                    delta_share == collect([i \in 1..n |-> sub_shares(pairs[k][2][i], beaver_triples[k].b[i])])
                IN [delta |-> reveal_shares(delta_share), epsilon |-> reveal_shares(epsilon_share)]])
    IN IF pairs = <<>> THEN <<>>
       ELSE collect([k \in 1..zipped |->
                collect([i \in 1..n |->
                    add_scalar(add_shares(add_shares(beaver_triples[k].c[i],
                                                     multiply_scalar(beaver_triples[k].b[i], revealed[k].epsilon)),
                                          multiply_scalar(beaver_triples[k].a[i], revealed[k].delta)),
                               mul(revealed[k].epsilon, revealed[k].delta))])])

\* The triples a supplier hands out for a batch: the k-th is a sharing of
\* (a + k, 2a + k, their product).
TripleSupply(a, count, n) ==
    collect([k \in 1..count |-> BeaverTriple(add(a, k), add(mul(a, 2), k), k, n)])

\* Every party calls multiply on its shares of x and y; the supplier hands
\* out a triple for a and b.
Multiply(n, x, y, a, b, seed) ==
    /\ mpc.pc = "idle"
    /\ LET lhs == Share(x, Polynomial(seed, 0), n)
           rhs == Share(y, Polynomial(seed, 1), n)
           triple == BeaverTriple(a, b, seed, n)
       IN mpc' = [pc |-> "multiplied", op |-> "multiply", parties |-> n,
                  lhs |-> <<x>>, rhs |-> <<y>>, a |-> <<a>>, b |-> <<b>>,
                  shares |-> <<<<lhs, rhs>>>>, triples |-> <<triple>>,
                  requests |-> <<1>>,
                  out |-> <<multiply(lhs, rhs, triple)>>]

\* Every party calls unbounded_multiply on its shares of the pairs.
UnboundedMultiply(n, xs, ys, a) ==
    /\ mpc.pc = "idle"
    /\ LET pairs == collect([k \in 1..Len(xs) |->
                        <<Share(xs[k], Polynomial(k, 0), n), Share(ys[k], Polynomial(k, 1), n)>>])
           beaver_triples == TripleSupply(a, Len(pairs), n)
       IN mpc' = [pc |-> "multiplied", op |-> "unbounded_multiply", parties |-> n,
                  requests |-> <<Len(pairs)>>,
                  lhs |-> xs, rhs |-> ys,
                  a |-> [k \in 1..Len(xs) |-> add(a, k)],
                  b |-> [k \in 1..Len(xs) |-> add(mul(a, 2), k)],
                  shares |-> pairs, triples |-> beaver_triples,
                  out |-> unbounded_multiply(pairs, beaver_triples)]

BeaverInit == RatchetIdle /\ shamir = ShamirIdle /\ mpc = MpcIdle /\ vandermonde = VandermondeIdle /\ field = FieldIdle /\ hash = HashIdle

BeaverNext ==
    /\ UNCHANGED <<ratchetVars, shamir, vandermonde, field, hash>>
    /\ mpc.pc = "idle"
    /\ \/ \E n \in PartyCounts, x, y, a, b \in Field, seed \in Coefficients :
              Multiply(n, x, y, a, b, seed)
       \/ \E n \in PartyCounts, count \in 1..MaxBatch, a \in Secrets :
              \E xs, ys \in Tuples(Secrets, count) : UnboundedMultiply(n, xs, ys, a)

SpecBeaver == BeaverInit /\ [][BeaverNext]_vars

(***************************************************************************)
(* What a multiplication reveals.                                          *)
(***************************************************************************)
\* Values revealed when the share of x itself is opened as epsilon.
revealed_values_unmasked(lhs, rhs, triple) ==
    LET epsilon_share == lhs
        delta_share == collect([i \in 1..Len(rhs) |-> sub_shares(rhs[i], triple.b[i])])
    IN [epsilon |-> reveal_shares(epsilon_share), delta |-> reveal_shares(delta_share)]

\* The two values multiply opens with reveal_shares.
revealed_values(lhs, rhs, triple) ==
    LET epsilon_share == collect([i \in 1..Len(lhs) |-> sub_shares(lhs[i], triple.a[i])])
        delta_share == collect([i \in 1..Len(rhs) |-> sub_shares(rhs[i], triple.b[i])])
    IN [epsilon |-> reveal_shares(epsilon_share), delta |-> reveal_shares(delta_share)]

\* What the parties see opened for inputs x, y and the triple of a, b.
RevealedBy(x, y, a, b, seed, n) ==
    revealed_values(Share(x, Polynomial(seed, 0), n), Share(y, Polynomial(seed, 1), n),
                    BeaverTriple(a, b, seed, n))

\* The pairs of field elements in a fixed order: pair number k + 1 is
\* <<k \div P, k % P>>.
PairNumber(first, second) == first * P + second + 1

PairCount == P * P

\* For every pair of opened values (by its number), the number of triples
\* (a, b) of the field that open it.
ViewsOf(x, y, seed, n) ==
    LET opened == collect([k \in 1..PairCount |->
                      RevealedBy(x, y, (k - 1) \div P, (k - 1) % P, seed, n)])
    IN collect([k \in 1..PairCount |->
           Cardinality({ab \in 1..PairCount :
                           opened[ab] = [epsilon |-> (k - 1) \div P, delta |-> (k - 1) % P]})])

\* The views of all inputs, evaluated once: AllViews[n][seed + 1] holds the
\* views of the input pairs by their number.
AllViews ==
    collect([n \in 1..MaxParties |-> collect([seed1 \in 1..(MaxCoefficient + 1) |->
        IF n < Threshold THEN <<>>
        ELSE collect([k \in 1..PairCount |->
                 ViewsOf((k - 1) \div P, (k - 1) % P, seed1 - 1, n)])])])

\* multiply is run on x and y with every triple the supplier can hand out.
ObserveMultiply(n, x, y, seed) ==
    /\ mpc.pc = "idle"
    /\ mpc' = [pc |-> "observed", op |-> "multiply", parties |-> n, seed |-> seed,
               lhs |-> x, rhs |-> y, views |-> ViewsOf(x, y, seed, n)]

PrivacyInit == RatchetIdle /\ shamir = ShamirIdle /\ mpc = MpcIdle /\ vandermonde = VandermondeIdle /\ field = FieldIdle /\ hash = HashIdle

PrivacyNext ==
    /\ UNCHANGED <<ratchetVars, shamir, vandermonde, field, hash>>
    /\ mpc.pc = "idle"
    /\ \E n \in PartyCounts, x, y \in Field, seed \in Coefficients :
           ObserveMultiply(n, x, y, seed)

SpecPrivacy == PrivacyInit /\ [][PrivacyNext]_vars

(***************************************************************************)
(* Conditional selection.                                                  *)
(***************************************************************************)
\* A selection that forms the difference rhs - lhs.
joint_conditional_selection_swapped(condition, lhs, rhs, beaver_triples) ==
    LET operands_difference == collect([i \in 1..Len(lhs) |-> sub_shares(rhs[i], lhs[i])])
        product_share == multiply(condition, operands_difference, beaver_triples[1])
    IN [share |-> collect([i \in 1..Len(rhs) |-> add_shares(product_share[i], rhs[i])]),
        multiplications |-> 1]

\* JointConditionalSelection::joint_conditional_selection; multiplications
\* counts the calls of protocol.multiply, each taking one triple.
joint_conditional_selection(condition, lhs, rhs, beaver_triples) ==
    LET operands_difference == collect([i \in 1..Len(lhs) |-> sub_shares(lhs[i], rhs[i])])
        product_share == multiply(condition, operands_difference, beaver_triples[1])
    IN [share |-> collect([i \in 1..Len(rhs) |-> add_shares(product_share[i], rhs[i])]),
        multiplications |-> 1]

\* Every party calls joint_conditional_selection on its shares of c, x, y.
Select(n, c, x, y, a, b, seed) ==
    /\ mpc.pc = "idle"
    /\ LET condition == Share(c, Polynomial(seed, 5), n)
           lhs == Share(x, Polynomial(seed, 0), n)
           rhs == Share(y, Polynomial(seed, 1), n)
           selected == joint_conditional_selection(condition, lhs, rhs,
                                                   <<BeaverTriple(a, b, seed, n)>>)
       IN mpc' = [pc |-> "selected", op |-> "joint_conditional_selection", parties |-> n,
                  condition |-> c, lhs |-> x, rhs |-> y, a |-> a, b |-> b,
                  multiplications |-> selected.multiplications,
                  out |-> selected.share]

SelectInit == RatchetIdle /\ shamir = ShamirIdle /\ mpc = MpcIdle /\ vandermonde = VandermondeIdle /\ field = FieldIdle /\ hash = HashIdle

SelectNext ==
    /\ UNCHANGED <<ratchetVars, shamir, vandermonde, field, hash>>
    /\ mpc.pc = "idle"
    /\ \E n \in PartyCounts, c \in Secrets, x, y \in Field, a, b \in Secrets,
          seed \in Coefficients : Select(n, c, x, y, a, b, seed)

SpecSelect == SelectInit /\ [][SelectNext]_vars

(***************************************************************************)
(* Linear combinators on two sharings of one count and threshold.          *)
(***************************************************************************)
\* The members the rng yields for the second sharing of a pair.
SecondPolynomial(polynomial) == [i \in 1..Len(polynomial) |-> (2 * polynomial[i] + i) % P]

\* generate_shares is called twice with the same count and threshold.
SharePair(a, b, count, threshold, polynomial) ==
    /\ shamir.pc = "idle"
    /\ shamir' = [pc |-> "pair", secret |-> a, other |-> b, count |-> count,
                  threshold |-> threshold,
                  shares |-> generate_shares(polynomial, a, count, threshold),
                  others |-> generate_shares(SecondPolynomial(polynomial), b, count, threshold),
                  op |-> "none", scalar |-> 0, out |-> <<>>]

\* add_shares on the two shares of every point.
AddShares ==
    /\ shamir.pc = "pair"
    /\ shamir' = [shamir EXCEPT !.pc = "combined", !.op = "add_shares",
                    !.out = collect([x \in 1..shamir.count |->
                                        add_shares(shamir.shares[x], shamir.others[x])])]

\* sub_shares on the two shares of every point.
SubShares ==
    /\ shamir.pc = "pair"
    /\ shamir' = [shamir EXCEPT !.pc = "combined", !.op = "sub_shares",
                    !.out = collect([x \in 1..shamir.count |->
                                        sub_shares(shamir.shares[x], shamir.others[x])])]

\* add_scalar on every share of the first sharing.
AddScalar(k) ==
    /\ shamir.pc = "pair"
    /\ shamir' = [shamir EXCEPT !.pc = "combined", !.op = "add_scalar", !.scalar = k,
                    !.out = Map(LAMBDA share : add_scalar(share, k), shamir.shares)]

\* sub_scalar on every share of the first sharing.
SubScalar(k) ==
    /\ shamir.pc = "pair"
    /\ shamir' = [shamir EXCEPT !.pc = "combined", !.op = "sub_scalar", !.scalar = k,
                    !.out = Map(LAMBDA share : sub_scalar(share, k), shamir.shares)]

\* multiply_scalar on every share of the first sharing.
MultiplyScalar(k) ==
    /\ shamir.pc = "pair"
    /\ shamir' = [shamir EXCEPT !.pc = "combined", !.op = "multiply_scalar", !.scalar = k,
                    !.out = Map(LAMBDA share : multiply_scalar(share, k), shamir.shares)]

LinearInit == RatchetIdle /\ shamir = ShamirIdle /\ mpc = MpcIdle /\ vandermonde = VandermondeIdle /\ field = FieldIdle /\ hash = HashIdle

LinearNext ==
    /\ UNCHANGED <<ratchetVars, mpc, vandermonde, field, hash>>
    /\ \/ /\ shamir.pc = "idle"
          /\ \E threshold \in 2..MaxThreshold, count \in 2..MaxCount, a, b \in Field :
                 /\ count >= threshold
                 /\ \E polynomial \in Tuples(Coefficients, threshold - 1) :
                        SharePair(a, b, count, threshold, polynomial)
       \/ /\ shamir.pc = "pair"
          /\ \/ AddShares
             \/ SubShares
             \/ \E k \in Secrets : AddScalar(k)
             \/ \E k \in Secrets : SubScalar(k)
             \/ \E k \in Secrets : MultiplyScalar(k)

SpecLinear == LinearInit /\ [][LinearNext]_vars

(***************************************************************************)
(* The combinators on shares of any evaluation points.                     *)
(***************************************************************************)
\* The shares a caller can hand in: any point with any value.
AnyShares == (1..MaxCount) \X Field

CallAddShares(lhs, rhs) ==
    /\ shamir.pc = "idle"
    /\ shamir' = [pc |-> "applied", op |-> "add_shares", args |-> <<lhs, rhs>>,
                  out |-> add_shares(lhs, rhs)]

CallSubShares(lhs, rhs) ==
    /\ shamir.pc = "idle"
    /\ shamir' = [pc |-> "applied", op |-> "sub_shares", args |-> <<lhs, rhs>>,
                  out |-> sub_shares(lhs, rhs)]

CallSumShares(shares) ==
    /\ shamir.pc = "idle"
    /\ shamir' = [pc |-> "applied", op |-> "sum_shares", args |-> shares,
                  out |-> sum_shares(shares)]

PointsInit == RatchetIdle /\ shamir = ShamirIdle /\ mpc = MpcIdle /\ vandermonde = VandermondeIdle /\ field = FieldIdle /\ hash = HashIdle

PointsNext ==
    /\ UNCHANGED <<ratchetVars, mpc, vandermonde, field, hash>>
    /\ shamir.pc = "idle"
    /\ \/ \E lhs \in AnyShares, rhs \in AnyShares :
             \/ CallAddShares(lhs, rhs)
             \/ CallSubShares(lhs, rhs)
       \/ \E k \in 0..MaxTerms : \E shares \in Tuples(AnyShares, k) : CallSumShares(shares)

SpecPoints == PointsInit /\ [][PointsNext]_vars

(***************************************************************************)
(* Joint random numbers and joint inversion.                               *)
(***************************************************************************)
\* The value generate_random_number_sharing hands to distribute_secret:
\* any member of the field, and with the non-zero scheme (which draws again
\* while the member is zero) any member but zero.
RandomPartial(scheme) == IF scheme = "sum_non_zero" THEN Field \ {Zero} ELSE Field

Schemes == {"sum", "sum_non_zero"}

\* CliqueCommunicationScheme::distribute_secret of one party: n shares of
\* the secret are created and one is sent to each party.
distribute_secret(secret, polynomial, n) == Share(secret, polynomial, n)

\* The end of generate_random_number_sharing at every party: sum_shares of
\* the shares received, unwrapped.  received[i] is what party i received.
generate_random_number_sharing(received) ==
    collect([i \in 1..Len(received) |-> Unwrap(sum_shares(received[i]))])

\* Iterator::zip of two sharing vectors.
zip(xs, ys) ==
    collect([k \in 1..(IF Len(xs) < Len(ys) THEN Len(xs) ELSE Len(ys)) |-> <<xs[k], ys[k]>>])

\* ParallelMultiplicationScheme::parallel_multiply, provided by the Beaver
\* batch multiplication.
parallel_multiply(pairs, beaver_triples) == unbounded_multiply(pairs, beaver_triples)

\* JointUnboundedInversion::unbounded_inverse after the helpers are joined.
unbounded_inverse(shares, helpers, beaver_triples) ==
    LET rerandomized_elements == parallel_multiply(zip(shares, helpers), beaver_triples)
        revealed_elements == Map(reveal_shares, rerandomized_elements)
    IN collect([k \in 1..Len(zip(revealed_elements, helpers)) |->
                   Map(LAMBDA helper : multiply_scalar(helper, inverse(revealed_elements[k])),
                       helpers[k])])

\* No party has distributed its member of the next helper yet.
NoRound == [from |-> 0, received |-> <<>>]

\* The shares of party i after one more party has distributed: the shares
\* received are kept summed.
Receive(round, sent, n) ==
    [from |-> round.from + 1,
     received |->
        collect([i \in 1..n |->
            IF round.from = 0 THEN <<sent[i]>>
            ELSE <<Unwrap(sum_shares(round.received[i] \o <<sent[i]>>))>>])]

\* Every party calls unbounded_inverse on a batch of bound shares.
CallInverse(n, scheme, bound) ==
    /\ mpc.pc = "idle"
    /\ mpc' = [pc |-> "helpers", op |-> "unbounded_inverse", parties |-> n,
               scheme |-> scheme, bound |-> bound, helpers |-> <<>>,
               round |-> NoRound, inputs |-> <<>>, out |-> <<>>]

\* The next party draws its member of the helper in generation and
\* distributes it; when all parties have, the helper is joined.
Distribute(rand_partial) ==
    /\ mpc.pc = "helpers"
    /\ Len(mpc.helpers) < mpc.bound
    /\ LET party == mpc.round.from + 1
           sent == distribute_secret(rand_partial,
                                     Polynomial(party, Len(mpc.helpers)), mpc.parties)
           round == Receive(mpc.round, sent, mpc.parties)
       IN IF round.from < mpc.parties
          THEN mpc' = [mpc EXCEPT !.round = round]
          ELSE mpc' = [mpc EXCEPT !.round = NoRound,
                         !.helpers = Append(@, generate_random_number_sharing(round.received))]

\* The helpers are joined: the batch is multiplied, revealed and inverted.
Invert(xs) ==
    /\ mpc.pc = "helpers"
    /\ Len(mpc.helpers) = mpc.bound
    /\ LET shares == collect([k \in 1..Len(xs) |->
                                 Share(xs[k], Polynomial(k, 0), mpc.parties)])
           beaver_triples == TripleSupply(One, Len(xs), mpc.parties)
       IN mpc' = [mpc EXCEPT !.pc = "inverted", !.inputs = xs,
                             !.out = unbounded_inverse(shares, mpc.helpers, beaver_triples)]

InversionInit == RatchetIdle /\ shamir = ShamirIdle /\ mpc = MpcIdle /\ vandermonde = VandermondeIdle /\ field = FieldIdle /\ hash = HashIdle

InversionNext ==
    /\ UNCHANGED <<ratchetVars, shamir, vandermonde, field, hash>>
    /\ \/ /\ mpc.pc = "idle"
          /\ \E n \in PartyCounts, scheme \in Schemes, bound \in 1..MaxBatch :
                 CallInverse(n, scheme, bound)
       \/ /\ mpc.pc = "helpers"
          /\ \/ \E rand_partial \in RandomPartial(mpc.scheme) : Distribute(rand_partial)
             \/ \E xs \in Tuples(Secrets, mpc.bound) : Invert(xs)

SpecInversion == InversionInit /\ [][InversionNext]_vars

(***************************************************************************)
(* TestProtocol: one participant, no communication.  A protocol call is    *)
(* made on single shares of the participant.                               *)
(***************************************************************************)
\* TestProtocol { participant_id: 1 }.
participant_id == 1

\* TestProtocol::distribute_secret: two copies of the secret.
test_distribute_secret(secret) == <<<<participant_id, secret>>, <<participant_id, secret>>>>

\* A reveal that hands back the evaluation point of the share.
test_reveal_point(share) == share[1]

\* TestProtocol::reveal_shares: the value of the share.
test_reveal_shares(share) == share[2]

\* TestProtocol::obtain_beaver_triples: count times (1, 1, 1).
test_obtain_beaver_triples(count) ==
    collect([k \in 1..count |-> [a |-> <<participant_id, One>>,
                                 b |-> <<participant_id, One>>,
                                 c |-> <<participant_id, One>>]])

\* SumNonZeroRandomNumberGeneration::generate_random_number_sharing with the
\* member the loop ends with.
test_generate_random_number_sharing(rand_partial) ==
    Unwrap(sum_shares(test_distribute_secret(rand_partial)))

\* BeaverRerandomizationMultiplication::unbounded_multiply on single shares.
test_unbounded_multiply(pairs, beaver_triples) ==
    LET zipped == IF Len(pairs) < Len(beaver_triples) THEN Len(pairs) ELSE Len(beaver_triples)
        revealed ==
            collect([k \in 1..zipped |->
                [delta |-> test_reveal_shares(sub_shares(pairs[k][2], beaver_triples[k].b)),
                 epsilon |-> test_reveal_shares(sub_shares(pairs[k][1], beaver_triples[k].a))]])
    IN collect([k \in 1..zipped |->
           add_scalar(add_shares(add_shares(beaver_triples[k].c,
                                            multiply_scalar(beaver_triples[k].b, revealed[k].epsilon)),
                                 multiply_scalar(beaver_triples[k].a, revealed[k].delta)),
                      mul(revealed[k].epsilon, revealed[k].delta))])

\* JointUnboundedInversion::unbounded_inverse with TestProtocol; draws are
\* the members the random number generation ends with.
test_unbounded_inverse(shares, draws) ==
    LET helpers == Map(test_generate_random_number_sharing, draws)
        rerandomized_elements ==
            test_unbounded_multiply(zip(shares, helpers), test_obtain_beaver_triples(Len(shares)))
        revealed_elements == Map(test_reveal_shares, rerandomized_elements)
    IN collect([k \in 1..Len(zip(revealed_elements, helpers)) |->
                   multiply_scalar(helpers[k], inverse(revealed_elements[k]))])

\* unbounded_inverse on shares (1, x) of the elements xs.
TestInverse(xs, draws) ==
    /\ mpc.pc = "idle"
    /\ mpc' = [pc |-> "test_inverted", op |-> "unbounded_inverse", inputs |-> xs,
               out |-> test_unbounded_inverse(Map(LAMBDA x : <<participant_id, x>>, xs), draws),
               twice |-> <<>>]

\* unbounded_inverse on what the first call returned.
TestInverseAgain(draws) ==
    /\ mpc.pc = "test_inverted"
    /\ mpc' = [mpc EXCEPT !.pc = "test_twice",
                          !.twice = test_unbounded_inverse(mpc.out, draws)]

TestInit == RatchetIdle /\ shamir = ShamirIdle /\ mpc = MpcIdle /\ vandermonde = VandermondeIdle /\ field = FieldIdle /\ hash = HashIdle

TestNext ==
    /\ UNCHANGED <<ratchetVars, shamir, vandermonde, field, hash>>
    /\ \/ /\ mpc.pc = "idle"
          /\ \E bound \in 1..MaxBatch :
                \E xs \in Tuples(Field, bound), draws \in Tuples(RandomPartial("sum_non_zero"), bound) :
                    TestInverse(xs, draws)
       \/ /\ mpc.pc = "test_inverted"
          /\ \E draws \in Tuples(RandomPartial("sum_non_zero"), Len(mpc.out)) :
                TestInverseAgain(draws)

SpecTest == TestInit /\ [][TestNext]_vars

(***************************************************************************)
(* What an inversion reveals.                                              *)
(***************************************************************************)
\* The values unbounded_inverse opens with reveal_shares: the products of
\* the inputs and their helpers.
revealed_elements(shares, helpers, beaver_triples) ==
    Map(reveal_shares, parallel_multiply(zip(shares, helpers), beaver_triples))

\* The helper the parties join when party q hands rand_partials[q] to
\* distribute_secret.
JoinedHelper(rand_partials, draw, n) ==
    LET sent == collect([q \in 1..n |->
                    distribute_secret(rand_partials[q], Polynomial(q, draw), n)])
    IN generate_random_number_sharing(
           collect([i \in 1..n |-> collect([q \in 1..n |-> sent[q][i]])]))

\* For every field element v (at v + 1), the number of draws of the
\* Threshold parties for which unbounded_inverse on a share of x opens v.
InverseViewOf(x, scheme, seed, a) ==
    LET n == Threshold
        shares == <<Share(x, Polynomial(seed, 0), n)>>
        opened ==
            collect([k \in 1..PairCount |->
                LET rand_partials == <<(k - 1) \div P, (k - 1) % P>>
                IN IF \E q \in 1..n : rand_partials[q] \notin RandomPartial(scheme)
                   THEN <<>>
                   ELSE revealed_elements(shares, <<JoinedHelper(rand_partials, 0, n)>>,
                                          TripleSupply(a, 1, n))])
    IN collect([v \in 1..P |-> Cardinality({k \in 1..PairCount : opened[k] = <<v - 1>>})])

\* unbounded_inverse is run on a share of x with every draw of the parties.
ObserveInverse(scheme, x, seed, a) ==
    /\ mpc.pc = "idle"
    /\ mpc' = [pc |-> "observed", op |-> "unbounded_inverse", parties |-> Threshold,
               scheme |-> scheme, seed |-> seed, a |-> a, lhs |-> x,
               views |-> InverseViewOf(x, scheme, seed, a)]

LeakInit == RatchetIdle /\ shamir = ShamirIdle /\ mpc = MpcIdle /\ vandermonde = VandermondeIdle /\ field = FieldIdle /\ hash = HashIdle

LeakNext ==
    /\ UNCHANGED <<ratchetVars, shamir, vandermonde, field, hash>>
    /\ mpc.pc = "idle"
    /\ \E scheme \in Schemes, x \in Field, seed \in Coefficients, a \in Secrets :
           ObserveInverse(scheme, x, seed, a)

SpecLeak == LeakInit /\ [][LeakNext]_vars

(***************************************************************************)
(* Unbounded OR.                                                           *)
(***************************************************************************)
\* get_inverted_vandermonde_upper: the entry the cache is filled with.
RECURSIVE get_inverted_vandermonde_upper(_, _)
get_inverted_vandermonde_upper(row, column) ==
    IF row = column THEN One
    ELSE IF column = 0 \/ row = -1 THEN Zero
    ELSE LET x == FromBigUint(column)
             a == get_inverted_vandermonde_upper(row - 1, column - 1)
             b == get_inverted_vandermonde_upper(row, column - 1)
         IN sub(a, mul(b, x))

\* get_inverted_vandermonde_lower: the entry the cache is filled with.
get_inverted_vandermonde_lower(row, column) ==
    IF row < column THEN Zero
    ELSE IF row = 0 /\ column = 0 THEN One
    ELSE inverse(product(Map(LAMBDA k : sub(from_i64(column), from_i64(k)),
                             SelectSeq([k \in 1..(row + 1) |-> k - 1],
                                       LAMBDA k : k # column))))

\* The loop of get_inverted_vandermonde_entry up to (excluding) index.
RECURSIVE vandermonde_accumulate(_, _, _)
vandermonde_accumulate(row, column, index) ==
    IF index = 0 THEN Zero
    ELSE LET acc == vandermonde_accumulate(row, column, index - 1)
             u == get_inverted_vandermonde_upper(row, index - 1)
             l == get_inverted_vandermonde_lower(index - 1, column)
         IN add(acc, mul(u, l))

\* get_inverted_vandermonde_entry; assert!(matrix_size > 0) aborts the call.
get_inverted_vandermonde_entry(row, column, matrix_size) ==
    IF ~(matrix_size > 0) THEN "Abort"
    ELSE vandermonde_accumulate(row, column, matrix_size)

\* The samples of f at 1..degree + 1: f(1) = 0 and 1 elsewhere.
lagrange_coefficients(degree) == [a \in 1..(degree + 1) |-> IF a = 1 THEN 0 ELSE 1]

\* The monomial coefficients unbounded_shared_or computes for a degree;
\* member i + 1 is the coefficient of the power i.
monomial_coefficients(degree) ==
    collect([i \in 1..(degree + 1) |->
        sum(collect([j \in 1..(degree + 1) |->
            mul(get_inverted_vandermonde_entry(i - 1, j - 1, degree + 1),
                FromBigUint(lagrange_coefficients(degree)[j]))]))])

\* The coefficients of every degree a call can have, evaluated once.
monomial_coefficients_of == [degree \in 1..(MaxBits + 1) |-> monomial_coefficients(degree)]

\* The closing fold of unbounded_shared_or over the powers after the first.
RECURSIVE fold_add_shares(_, _)
fold_add_shares(acc, monomials) ==
    IF monomials = <<>> THEN acc
    ELSE fold_add_shares(collect([i \in 1..Len(acc) |-> add_shares(acc[i], monomials[1][i])]),
                         Tail(monomials))

\* JointUnboundedOrFunction::unbounded_shared_or after the helpers are
\* joined; inversion_helpers are the helpers unbounded_inverse generates.
\* assert!(!bits.is_empty()) aborts the call.
unbounded_shared_or(bits, helpers, inversion_helpers, n) ==
    IF bits = <<>> THEN "Abort"
    ELSE
    LET degree == Len(bits)
        sum_share ==
            collect([i \in 1..n |->
                add_scalar(Unwrap(sum_shares(collect([k \in 1..degree |-> bits[k][i]]))), One)])
        coefficients == monomial_coefficients_of[degree]
        inverted_helpers ==
            unbounded_inverse(helpers, inversion_helpers, TripleSupply(1, degree, n))
        cancellation_factors ==
            <<inverted_helpers[1]>> \o
            unbounded_multiply(zip(SubSeq(helpers, 1, degree - 1),
                                   SubSeq(inverted_helpers, 2, Len(inverted_helpers))),
                               TripleSupply(2, degree - 1, n))
        factors ==
            unbounded_multiply(Map(LAMBDA f : <<sum_share, f>>, cancellation_factors),
                               TripleSupply(3, degree, n))
        revealed_factors == Map(reveal_shares, factors)
        powers_for_polynomial ==
            collect([power \in 1..degree |->
                Map(LAMBDA helper :
                        multiply_scalar(
                            multiply_scalar(helper,
                                            product(SubSeq(revealed_factors, 1, power))),
                            coefficients[power + 1]),
                    helpers[power])])
    IN fold_add_shares(Map(LAMBDA first : add_scalar(first, coefficients[1]),
                           powers_for_polynomial[1]),
                       Tail(powers_for_polynomial))

\* The members a party is let to draw in the OR exploration: one and minus
\* one, so that a helper of two parties can come out as zero.
OrPartial == {c \in RandomPartial("sum_non_zero") : c = One \/ c = sub(Zero, One)}

\* Every party calls unbounded_shared_or on degree bits: the degree helpers
\* of the OR and then the degree helpers of its inversion are generated.
CallOr(degree) ==
    /\ mpc.pc = "idle"
    /\ mpc' = [pc |-> "helpers", op |-> "unbounded_shared_or", parties |-> Threshold,
               scheme |-> "sum_non_zero", bound |-> 2 * degree, helpers |-> <<>>,
               round |-> NoRound, inputs |-> <<>>, out |-> <<>>]

\* All helpers are joined: the OR of the bits is evaluated.
Or(bs) ==
    /\ mpc.pc = "helpers"
    /\ Len(mpc.helpers) = mpc.bound
    /\ LET degree == Len(bs)
           bits == collect([k \in 1..degree |-> Share(bs[k], Polynomial(k, 0), mpc.parties)])
       IN mpc' = [mpc EXCEPT !.pc = "evaluated", !.inputs = bs,
                    !.out = unbounded_shared_or(bits, SubSeq(mpc.helpers, 1, degree),
                                                SubSeq(mpc.helpers, degree + 1, 2 * degree),
                                                mpc.parties)]

OrInit == RatchetIdle /\ shamir = ShamirIdle /\ mpc = MpcIdle /\ vandermonde = VandermondeIdle /\ field = FieldIdle /\ hash = HashIdle

OrNext ==
    /\ UNCHANGED <<ratchetVars, shamir, vandermonde, field, hash>>
    /\ \/ /\ mpc.pc = "idle"
          /\ \E degree \in 1..MaxBits : CallOr(degree)
       \/ /\ mpc.pc = "helpers"
          /\ \/ \E rand_partial \in OrPartial : Distribute(rand_partial)
             \/ \E bs \in Tuples({0, 1}, mpc.bound \div 2) : Or(bs)

SpecOr == OrInit /\ [][OrNext]_vars

(***************************************************************************)
(* The memo tables of the inverted Vandermonde matrix.  Each table is one  *)
(* process-wide typemap behind a mutex; an entry is found under the        *)
(* element type and the pair (row, column).  A look-up holds the mutex     *)
(* only between an await of lock() and the next drop, so each such region  *)
(* is one step; the two calls joined in the upper function run one after   *)
(* the other within a caller, and callers interleave freely.               *)
(***************************************************************************)
\* Two element types over the same prime: TestPrimeField and Mersenne3.
ElementTypes == {"TestPrimeField", "Mersenne3"}

\* A get that finds the entries of a row whatever their column.
cache_get_row(cache, type, row, column) ==
    {e \in cache : e.type = type /\ e.row = row}

\* .get::<TypeKey<T>>().and_then(|matrix| matrix.get(&(row, column)))
cache_get(cache, type, row, column) ==
    {e \in cache : e.type = type /\ e.row = row /\ e.column = column}

\* An insert that replaces the map of the element type by a new one.
cache_insert_fresh(cache, type, row, column, v) ==
    {e \in cache : e.type # type}
        \cup {[type |-> type, row |-> row, column |-> column, value |-> v]}

\* .entry::<TypeKey<T>>().or_insert_with(HashMap::new).insert((row, column), v)
cache_insert(cache, type, row, column, v) ==
    {e \in cache : ~(e.type = type /\ e.row = row /\ e.column = column)}
        \cup {[type |-> type, row |-> row, column |-> column, value |-> v]}

\* A miss that keeps the guard of the upper table over the recursive calls.
guard_kept(c) == c

\* drop(mutex_guard) on a miss of the upper table, before the recursion.
guard_dropped(c) == "free"

\* lock().await: the call goes on when nobody holds the guard.
lock(guards, table) == guards[table] = "free"

\* One pending call of get_inverted_vandermonde_upper.
Frame(row, column) ==
    [row |-> row, column |-> column, pc |-> "lookup", a |-> 0, v |-> 0]

\* The innermost call of the caller returns value: the caller is done, or
\* the call that joined it goes on with its second call or with a - b * x.
upper_return(cr, value, read) ==
    LET rest == SubSeq(cr.stack, 1, Len(cr.stack) - 1)
    IN IF rest = <<>> /\ cr.pc = "entry"
       THEN [cr EXCEPT !.stack = <<>>, !.u = value, !.read = read]
       ELSE IF rest = <<>>
       THEN [cr EXCEPT !.pc = "returned", !.stack = <<>>, !.value = value,
                       !.read = read]
       ELSE LET parent == rest[Len(rest)]
                below == SubSeq(rest, 1, Len(rest) - 1)
            IN IF parent.pc = "left"
               THEN [cr EXCEPT !.read = read,
                               !.stack = below \o
                                   <<[parent EXCEPT !.pc = "right", !.a = value],
                                     Frame(parent.row, parent.column - 1)>>]
               ELSE [cr EXCEPT !.read = read,
                               !.stack = below \o
                                   <<[parent EXCEPT
                                        !.pc = "insert",
                                        !.v = sub(parent.a,
                                                  mul(value, FromBigUint(parent.column)))]>>]

\* A caller starts get_inverted_vandermonde_upper::<type>(row, column).
CallUpper(c, type, row, column) ==
    /\ vandermonde.callers[c].pc = "idle"
    /\ vandermonde' = [vandermonde EXCEPT !.callers[c] =
           [pc |-> "upper", call |-> "upper", type |-> type, row |-> row,
            column |-> column, stack |-> <<Frame(row, column)>>, value |-> 0,
            read |-> {}]]

\* A caller starts get_inverted_vandermonde_lower::<type>(row, column).
CallLower(c, type, row, column) ==
    /\ vandermonde.callers[c].pc = "idle"
    /\ vandermonde' = [vandermonde EXCEPT !.callers[c] =
           [pc |-> "lower", call |-> "lower", type |-> type, row |-> row,
            column |-> column, stack |-> <<>>, value |-> 0, read |-> {}]]

\* The first lock of the upper function: a hit returns the entry; a miss
\* drops the guard and takes the branch of the computation.
UpperLookup(c) ==
    LET cr == vandermonde.callers[c]
        top == cr.stack[Len(cr.stack)]
        hit == cache_get(vandermonde.upper, cr.type, top.row, top.column)
        at(frame) == [cr EXCEPT !.stack = SubSeq(cr.stack, 1, Len(cr.stack) - 1) \o frame]
    IN /\ cr.pc \in {"upper", "entry"} /\ cr.stack # <<>>
       /\ top.pc = "lookup"
       /\ lock(vandermonde.guards, "upper")
       /\ vandermonde' = [vandermonde EXCEPT
              !.guards.upper = IF hit # {} THEN "free" ELSE guard_dropped(c),
              !.callers[c] =
              IF hit # {}
              THEN upper_return(cr, (CHOOSE e \in hit : TRUE).value, cr.read \cup hit)
              ELSE IF top.row = top.column
              THEN at(<<[top EXCEPT !.pc = "insert", !.v = One]>>)
              ELSE IF top.column = 0 \/ top.row = -1
              THEN at(<<[top EXCEPT !.pc = "insert", !.v = Zero]>>)
              ELSE at(<<[top EXCEPT !.pc = "left"],
                        Frame(top.row - 1, top.column - 1)>>)]

\* The second lock of the upper function: insert the computed entry.
UpperInsert(c) ==
    LET cr == vandermonde.callers[c]
        top == cr.stack[Len(cr.stack)]
    IN /\ cr.pc \in {"upper", "entry"} /\ cr.stack # <<>>
       /\ top.pc = "insert"
       /\ lock(vandermonde.guards, "upper")
       /\ vandermonde' = [vandermonde EXCEPT
              !.upper = cache_insert(vandermonde.upper, cr.type, top.row, top.column, top.v),
              !.callers[c] = upper_return(cr, top.v, cr.read)]

\* The lower function keeps its guard from the look-up to the insert.
LowerLookup(c) ==
    LET cr == vandermonde.callers[c]
        hit == cache_get(vandermonde.lower, cr.type, cr.row, cr.column)
        v == get_inverted_vandermonde_lower(cr.row, cr.column)
    IN /\ cr.pc = "lower"
       /\ lock(vandermonde.guards, "lower")
       /\ vandermonde' =
              IF hit # {}
              THEN [vandermonde EXCEPT !.callers[c] =
                       [cr EXCEPT !.pc = "returned",
                                  !.value = (CHOOSE e \in hit : TRUE).value,
                                  !.read = cr.read \cup hit]]
              ELSE [vandermonde EXCEPT
                       !.lower = cache_insert(vandermonde.lower, cr.type, cr.row, cr.column, v),
                       !.callers[c] = [cr EXCEPT !.pc = "returned", !.value = v]]

\* A caller starts get_inverted_vandermonde_entry::<type>(row, column,
\* matrix_size): the loop begins at index 0 with the upper look-up.
CallEntry(c, type, row, column, matrix_size) ==
    /\ vandermonde.callers[c].pc = "idle"
    /\ matrix_size > 0
    /\ vandermonde' = [vandermonde EXCEPT !.callers[c] =
           [pc |-> "entry", call |-> "entry", type |-> type, row |-> row,
            column |-> column, matrix_size |-> matrix_size, index |-> 0,
            acc |-> Zero, u |-> Zero, stack |-> <<Frame(row, 0)>>,
            value |-> 0, read |-> {}]]

\* The lower look-up of one round of the loop, acc = acc + u * l, and the
\* next round or the return of acc.
EntryLower(c) ==
    LET cr == vandermonde.callers[c]
        hit == cache_get(vandermonde.lower, cr.type, cr.index, cr.column)
        l == IF hit # {} THEN (CHOOSE e \in hit : TRUE).value
             ELSE get_inverted_vandermonde_lower(cr.index, cr.column)
        acc == add(cr.acc, mul(cr.u, l))
        index == cr.index + 1
    IN /\ cr.pc = "entry" /\ cr.stack = <<>>
       /\ lock(vandermonde.guards, "lower")
       /\ vandermonde' = [vandermonde EXCEPT
              !.lower = IF hit # {} THEN @
                        ELSE cache_insert(@, cr.type, cr.index, cr.column, l),
              !.callers[c] =
                  IF index = cr.matrix_size
                  THEN [cr EXCEPT !.pc = "returned", !.acc = acc, !.value = acc,
                                  !.index = index, !.read = @ \cup hit]
                  ELSE [cr EXCEPT !.acc = acc, !.index = index,
                                  !.read = @ \cup hit,
                                  !.stack = <<Frame(cr.row, index)>>]]

CacheInit == RatchetIdle /\ shamir = ShamirIdle /\ mpc = MpcIdle /\ vandermonde = VandermondeIdle /\ field = FieldIdle /\ hash = HashIdle

CacheNext ==
    /\ UNCHANGED <<ratchetVars, shamir, mpc, field, hash>>
    /\ \E c \in Callers :
          \/ /\ vandermonde.callers[c].pc = "idle"
             /\ \E type \in ElementTypes, row \in 0..MaxIndex, column \in 0..MaxIndex :
                   \/ CallUpper(c, type, row, column)
                   \/ CallLower(c, type, row, column)
          \/ UpperLookup(c)
          \/ UpperInsert(c)
          \/ LowerLookup(c)

SpecCache == CacheInit /\ [][CacheNext]_vars

\* One caller looks up whole entries while the other looks up in the two
\* tables.
EntryInit == RatchetIdle /\ shamir = ShamirIdle /\ mpc = MpcIdle /\ vandermonde = VandermondeIdle /\ field = FieldIdle /\ hash = HashIdle

EntryNext ==
    /\ UNCHANGED <<ratchetVars, shamir, mpc, field, hash>>
    /\ \E c \in Callers :
          \/ /\ vandermonde.callers[c].pc = "idle"
             /\ \E row \in 0..MaxIndex, column \in 0..MaxIndex :
                   \/ c = "second" /\ CallUpper(c, "TestPrimeField", row, column)
                   \/ c = "second" /\ CallLower(c, "TestPrimeField", row, column)
                   \/ /\ c = "first"
                      /\ \E matrix_size \in 1..(MaxIndex + 1) :
                             CallEntry(c, "TestPrimeField", row, column, matrix_size)
          \/ UpperLookup(c)
          \/ UpperInsert(c)
          \/ LowerLookup(c)
          \/ EntryLower(c)

SpecEntry == EntryInit /\ [][EntryNext]_vars

\* The next locked region of a caller's look-up.
Poll(c) ==
    /\ UNCHANGED <<ratchetVars, shamir, mpc, field, hash>>
    /\ \/ UpperLookup(c)
       \/ UpperInsert(c)
       \/ LowerLookup(c)
       \/ EntryLower(c)

\* One caller looks up entries of the last row while the other looks up in
\* the two tables; the executor polls every task that can go on.
FairInit == RatchetIdle /\ shamir = ShamirIdle /\ mpc = MpcIdle /\ vandermonde = VandermondeIdle /\ field = FieldIdle /\ hash = HashIdle

FairNext ==
    /\ UNCHANGED <<ratchetVars, shamir, mpc, field, hash>>
    /\ \E c \in Callers :
          \/ /\ vandermonde.callers[c].pc = "idle"
             /\ \E row \in 0..MaxIndex, column \in 0..MaxIndex :
                   \/ c = "second" /\ CallUpper(c, "TestPrimeField", row, column)
                   \/ c = "second" /\ CallLower(c, "TestPrimeField", row, column)
                   \/ /\ c = "first" /\ row = MaxIndex
                      /\ \E matrix_size \in 1..(MaxIndex + 1) :
                             CallEntry(c, "TestPrimeField", row, column, matrix_size)
          \/ UpperLookup(c)
          \/ UpperInsert(c)
          \/ LowerLookup(c)
          \/ EntryLower(c)

SpecEntryFair == FairInit /\ [][FairNext]_vars /\ \A c \in Callers : WF_vars(Poll(c))

(***************************************************************************)
(* Calls of the prime-field operations.  A call leaves its arguments, the  *)
(* way it ended ("Ok", a panic "Abort", or "ParseError") and the elements  *)
(* it produced.                                                            *)
(***************************************************************************)
\* The magnitudes a program can hold in an element: the residues, and the
\* prime itself, which field_prime() hands out.
Elements == Field \cup {field_prime}

Digits == <<"0", "1", "2", "3", "4", "5", "6", "7", "8", "9">>

Characters == {Digits[k] : k \in 1..Len(Digits)} \cup {"x"}

Radixes == {2, Len(Digits)}

\* char::to_digit(radix): the value of a digit below the radix.
is_digit(ch, radix) == \E d \in 1..radix : Digits[d] = ch

digit_value(ch) == (CHOOSE d \in 1..Len(Digits) : Digits[d] = ch) - 1

\* BigUint::from_str_radix on a string of digits.
RECURSIVE parse_biguint(_, _)
parse_biguint(str, radix) ==
    IF str = <<>> THEN 0
    ELSE parse_biguint(SubSeq(str, 1, Len(str) - 1), radix) * radix
            + digit_value(str[Len(str)])

parse_fails(str, radix) ==
    str = <<>> \/ \E k \in 1..Len(str) : ~is_digit(str[k], radix)

\* Num::from_str_radix: i.modpow(1, prime).
from_str_radix(str, radix) == parse_biguint(str, radix) % P

\* FromPrimitive::from_u64.
from_u64(n) == FromBigUint(n)

\* generate_random_member: gen_biguint_below(prime), then into().
generate_random_member(draw) == FromBigUint(draw)

Done(op, args, result, out) ==
    field' = [pc |-> "done", op |-> op, args |-> args, result |-> result, out |-> out]

CallZero == Done("zero", <<>>, "Ok", <<Zero>>)

CallOne == Done("one", <<>>, "Ok", <<One>>)

CallFieldPrime == Done("field_prime", <<>>, "Ok", <<field_prime>>)

CallAdd(a, b) == Done("add", <<a, b>>, "Ok", <<add(a, b)>>)

CallSub(a, b) ==
    IF sub_panics(a, b) THEN Done("sub", <<a, b>>, "Abort", <<>>)
    ELSE Done("sub", <<a, b>>, "Ok", <<sub(a, b)>>)

CallMul(a, b) == Done("mul", <<a, b>>, "Ok", <<mul(a, b)>>)

CallDiv(a, b) ==
    IF div_panics(a, b) THEN Done("div", <<a, b>>, "Abort", <<>>)
    ELSE Done("div", <<a, b>>, "Ok", <<div(a, b)>>)

CallRem(a, b) ==
    IF rem_panics(a, b) THEN Done("rem", <<a, b>>, "Abort", <<>>)
    ELSE Done("rem", <<a, b>>, "Ok", <<rem(a, b)>>)

CallSum(xs) == Done("sum", xs, "Ok", <<sum(xs)>>)

CallProduct(xs) == Done("product", xs, "Ok", <<product(xs)>>)

CallFromU64(n) == Done("from_u64", <<n>>, "Ok", <<from_u64(n)>>)

CallFromI64(n) == Done("from_i64", <<n>>, "Ok", <<from_i64(n)>>)

CallFromStrRadix(str, radix) ==
    IF parse_fails(str, radix) THEN Done("from_str_radix", <<str, radix>>, "ParseError", <<>>)
    ELSE Done("from_str_radix", <<str, radix>>, "Ok", <<from_str_radix(str, radix)>>)

CallFieldInverse(a) == Done("inverse", <<a>>, "Ok", <<inverse(a)>>)

CallExtendedGcd(a, b) ==
    Done("extended_greatest_common_divisor", <<a, b>>, "Ok",
         extended_greatest_common_divisor(a, b))

CallGenerateRandomMember(draw) ==
    Done("generate_random_member", <<draw>>, "Ok", <<generate_random_member(draw)>>)

FieldInit == RatchetIdle /\ shamir = ShamirIdle /\ mpc = MpcIdle /\ vandermonde = VandermondeIdle /\ field = FieldIdle /\ hash = HashIdle

FieldNext ==
    /\ UNCHANGED <<ratchetVars, shamir, mpc, vandermonde, hash>>
    /\ field.pc = "idle"
    /\ \/ CallZero
       \/ CallOne
       \/ CallFieldPrime
       \/ \E a \in Elements, b \in Elements :
             \/ CallAdd(a, b)
             \/ CallSub(a, b)
             \/ CallMul(a, b)
             \/ CallDiv(a, b)
             \/ CallRem(a, b)
             \/ CallExtendedGcd(a, b)
       \/ \E a \in Elements : CallFieldInverse(a)
       \/ \E k \in 0..MaxTerms : \E xs \in Tuples(Elements, k) :
             \/ CallSum(xs)
             \/ CallProduct(xs)
       \/ \E n \in 0..MaxMagnitude : CallFromU64(n)
       \/ \E n \in (-MaxMagnitude)..MaxMagnitude : CallFromI64(n)
       \/ \E k \in 0..MaxDigits : \E str \in Tuples(Characters, k), radix \in Radixes :
             CallFromStrRadix(str, radix)
       \/ \E draw \in 0..(P - 1) : CallGenerateRandomMember(draw)

SpecField == FieldInit /\ [][FieldNext]_vars

(***************************************************************************)
(* MD5 as a block hash.  A message is a sequence of bytes.  The rounds of  *)
(* round_function are kept as a checksum of the chaining value and the     *)
(* block: the digest is a function of the sequence of blocks, which the    *)
(* state records next to it.                                               *)
(***************************************************************************)
BLOCK_LENGTH_BYTES == 64

\* size_of::<u64>() and size_of::<MD5Hash>().
LengthBytes == 8

OutputBytes == 16

\* The modulus of the checksum that stands for a 32-bit word.
WordValues == 65521

\* INITIAL, each word by its lower half.
INITIAL == <<8961, 43913, 56574, 21622>>

\* The length of the longest message that is hashed.
MaxLength == 66

\* v as count bytes, lowest first.
RECURSIVE le_bytes(_, _)
le_bytes(v, count) ==
    IF count = 0 THEN <<>> ELSE <<v % ByteValues>> \o le_bytes(v \div ByteValues, count - 1)

zeros(count) == collect([k \in 1..count |-> 0])

RECURSIVE weighted_sum(_, _)
weighted_sum(block, weight) ==
    IF block = <<>> THEN 0
    ELSE (Len(block) + weight) * block[Len(block)]
             + weighted_sum(SubSeq(block, 1, Len(block) - 1), weight)

\* round_function: the block is mixed into every word of the chaining value
\* and message_length grows by the bits of a block.
round_function(state, input) ==
    [state EXCEPT
        !.hash = collect([j \in 1..4 |->
                     (state.hash[j] * 31 + weighted_sum(input, j)) % WordValues]),
        !.message_length = @ + BLOCK_LENGTH_BYTES * 8,
        !.blocks = Append(@, input)]

init_hash == [hash |-> INITIAL, message_length |-> 0, remaining_data |-> <<>>,
              blocks |-> <<>>]

\* The loop of update_hash over the full blocks of input after the offset.
RECURSIVE digest_blocks(_, _, _, _)
digest_blocks(state, input, input_data_offset, message_blocks_count) ==
    IF message_blocks_count = 0 THEN state
    ELSE LET i == message_blocks_count - 1
             before == digest_blocks(state, input, input_data_offset, i)
         IN round_function(before,
                SubSeq(input, input_data_offset + i * BLOCK_LENGTH_BYTES + 1,
                       input_data_offset + (i + 1) * BLOCK_LENGTH_BYTES))

\* The two copy_from_slice calls that fill first_block abort the call when
\* the slices differ in length or input is shorter than the offset.
first_block_panics(state, input) ==
    LET input_data_offset == Len(state.remaining_data)
    IN \/ input_data_offset > BLOCK_LENGTH_BYTES
       \/ input_data_offset > Len(input)
       \/ BLOCK_LENGTH_BYTES - input_data_offset # input_data_offset

\* update_hash -> [state, aborted].
update_hash(state, input) ==
    LET buffered == state.remaining_data # <<>>
        fills == Len(state.remaining_data) + Len(input) >= BLOCK_LENGTH_BYTES
        input_data_offset == IF buffered /\ fills THEN Len(state.remaining_data) ELSE 0
        first_block == state.remaining_data \o SubSeq(input, 1, input_data_offset)
        started == IF buffered THEN round_function(state, first_block) ELSE state
        message_blocks_count == (Len(input) - input_data_offset) \div BLOCK_LENGTH_BYTES
        digested == digest_blocks(started, input, input_data_offset, message_blocks_count)
    IN IF buffered /\ ~fills
       THEN [state |-> [state EXCEPT !.remaining_data = @ \o input], aborted |-> FALSE]
       ELSE IF buffered /\ first_block_panics(state, input)
       THEN [state |-> state, aborted |-> TRUE]
       ELSE [state |-> [digested EXCEPT !.remaining_data =
                           SubSeq(input, message_blocks_count * BLOCK_LENGTH_BYTES + 1,
                                  Len(input))],
             aborted |-> FALSE]

\* finish_hash -> [state, hash, aborted]: the copy of the remaining data
\* into last_block and the write of 0x80 abort the call when a whole block
\* or more remains.
finish_hash(state) ==
    LET remaining_data == state.remaining_data
        message_length_bits == state.message_length + Len(remaining_data) * 8
        length == le_bytes(message_length_bits, LengthBytes)
        padded == remaining_data \o <<128>>
        last_block == padded \o zeros(BLOCK_LENGTH_BYTES - Len(padded))
        overflow_block == zeros(BLOCK_LENGTH_BYTES - LengthBytes) \o length
        finished ==
            IF Len(remaining_data) + 1 + LengthBytes > BLOCK_LENGTH_BYTES
            THEN round_function(round_function(state, last_block), overflow_block)
            ELSE round_function(state,
                     SubSeq(last_block, 1, BLOCK_LENGTH_BYTES - LengthBytes) \o length)
    IN IF Len(remaining_data) >= BLOCK_LENGTH_BYTES
       THEN [state |-> state, hash |-> state.hash, aborted |-> TRUE]
       ELSE [state |-> finished, hash |-> finished.hash, aborted |-> FALSE]

\* digest_message: init_hash, one update_hash, finish_hash.
digest_message(input) == finish_hash(update_hash(init_hash, input).state)

\* HashValue::raw of MD5Hash: the four words, each lowest byte first.
raw(md5) == le_bytes(md5[1], 4) \o le_bytes(md5[2], 4) \o le_bytes(md5[3], 4) \o le_bytes(md5[4], 4)

\* The message of a length: byte number k is k.
MessageOf(length) == collect([k \in 1..length |-> k % ByteValues])

\* init_hash for a message that is then fed in chunks.
InitHash(length) ==
    /\ hash.pc = "idle"
    /\ hash' = [pc |-> "streaming", message |-> MessageOf(length), fed |-> 0,
                chunks |-> 0, state |-> init_hash]

\* update_hash on the next chunk of the message.
UpdateHash(length) ==
    /\ hash.pc = "streaming"
    /\ hash.fed + length <= Len(hash.message)
    /\ LET r == update_hash(hash.state, SubSeq(hash.message, hash.fed + 1, hash.fed + length))
       IN hash' = IF r.aborted
                  THEN [hash EXCEPT !.pc = "aborted"]
                  ELSE [hash EXCEPT !.state = r.state, !.fed = @ + length,
                                    !.chunks = IF @ < 2 THEN @ + 1 ELSE @]

\* finish_hash once the whole message has been fed.
FinishHash ==
    /\ hash.pc = "streaming"
    /\ hash.fed = Len(hash.message)
    /\ LET r == finish_hash(hash.state)
       IN hash' = IF r.aborted
                  THEN [hash EXCEPT !.pc = "aborted"]
                  ELSE [hash EXCEPT !.pc = "finished", !.state = r.state]

Md5Init == RatchetIdle /\ shamir = ShamirIdle /\ mpc = MpcIdle /\ vandermonde = VandermondeIdle /\ field = FieldIdle /\ hash = HashIdle

Md5Next ==
    /\ UNCHANGED <<ratchetVars, shamir, mpc, vandermonde, field>>
    /\ \/ /\ hash.pc = "idle"
          /\ \E length \in 0..MaxLength : InitHash(length)
       \/ /\ hash.pc = "streaming"
          /\ \E length \in 0..(Len(hash.message) - hash.fed) : UpdateHash(length)
       \/ FinishHash

SpecMd5 == Md5Init /\ [][Md5Next]_vars

(***************************************************************************)
(* HMAC and HKDF over MD5Hash.                                             *)
(***************************************************************************)
\* BlockHashFunction of MD5Hash.
block_size == BLOCK_LENGTH_BYTES

output_size == OutputBytes

\* The length of the longest message and info.
MaxInfo == 2

\* The longest output that is asked of the key derivation.
MaxOutput == 33

\* u8 ^ u8.
RECURSIVE xor(_, _)
xor(a, b) ==
    IF a = 0 /\ b = 0 THEN 0
    ELSE ((a + b) % 2) + 2 * xor(a \div 2, b \div 2)

\* pad: length - key.len() leaves usize for a key longer than length; the
\* subtraction, or the allocation of the wrapped length, aborts the call.
pad_panics(key, length) == Len(key) > length

pad(key, length) == key \o zeros(length - Len(key))

\* hmac up to padded_key: the key block, "Abort" when pad aborts.
padded_key(key) ==
    LET shortened_key == IF Len(key) > block_size THEN raw(digest_message(key).hash)
                         ELSE key
    IN IF Len(shortened_key) < block_size
       THEN IF pad_panics(key, block_size) THEN "Abort" ELSE pad(key, block_size)
       ELSE shortened_key

\* hmac.
hmac(key, message) ==
    LET block == padded_key(key)
        outer_message == collect([k \in 1..Len(block) |-> xor(block[k], 92)])
        inner_message == collect([k \in 1..Len(block) |-> xor(block[k], 54)])
        inner == raw(digest_message(inner_message \o message).hash)
    IN IF block = "Abort" THEN "Abort"
       ELSE raw(digest_message(outer_message \o inner).hash)

\* f64::ceil(output_length as f64 / output_size as f64) as usize.
ceil_div(output_length, size) == (output_length + size - 1) \div size

\* The loop of hkdf_derive_key: parts[1..i] in their order.
RECURSIVE hkdf_parts(_, _, _)
hkdf_parts(pseudo_random_key, info, i) ==
    IF i = 0 THEN <<>>
    ELSE LET before == hkdf_parts(pseudo_random_key, info, i - 1)
             previous == IF i = 1 THEN <<>> ELSE before[i - 1]
         IN Append(before,
                   hmac(pseudo_random_key, previous \o info \o <<i % ByteValues>>))

RECURSIVE concat(_)
concat(parts) == IF parts = <<>> THEN <<>> ELSE parts[1] \o concat(Tail(parts))

\* hkdf_derive_key.
hkdf_derive_key(salt, ikm, output_length, info) ==
    LET pseudo_random_key == hmac(salt, ikm)
        partials == ceil_div(output_length, output_size)
    IN IF pseudo_random_key = "Abort" THEN "Abort"
       ELSE concat(hkdf_parts(pseudo_random_key, info, partials))

\* hmac::<MD5Hash, ()> on a key and a message of the given lengths.
CallHmac(key_length, message_length) ==
    /\ hash.pc = "idle"
    /\ hash' = [pc |-> "hmac", key |-> MessageOf(key_length),
                message |-> MessageOf(message_length),
                padded_key |-> padded_key(MessageOf(key_length)),
                out |-> hmac(MessageOf(key_length), MessageOf(message_length))]

HmacInit == RatchetIdle /\ shamir = ShamirIdle /\ mpc = MpcIdle /\ vandermonde = VandermondeIdle /\ field = FieldIdle /\ hash = HashIdle

HmacNext ==
    /\ UNCHANGED <<ratchetVars, shamir, mpc, vandermonde, field>>
    /\ hash.pc = "idle"
    /\ \E key_length \in 0..MaxLength, message_length \in 0..MaxInfo :
           CallHmac(key_length, message_length)

SpecHmac == HmacInit /\ [][HmacNext]_vars

\* hkdf_derive_key::<MD5Hash, ()>.
CallHkdf(salt_length, ikm_length, output_length, info_length) ==
    /\ hash.pc = "idle"
    /\ hash' = [pc |-> "hkdf", salt |-> MessageOf(salt_length),
                ikm |-> MessageOf(ikm_length), output_length |-> output_length,
                info |-> MessageOf(info_length),
                out |-> hkdf_derive_key(MessageOf(salt_length), MessageOf(ikm_length),
                                        output_length, MessageOf(info_length))]

HkdfInit == RatchetIdle /\ shamir = ShamirIdle /\ mpc = MpcIdle /\ vandermonde = VandermondeIdle /\ field = FieldIdle /\ hash = HashIdle

HkdfNext ==
    /\ UNCHANGED <<ratchetVars, shamir, mpc, vandermonde, field>>
    /\ hash.pc = "idle"
    /\ \E salt_length, ikm_length, info_length \in 0..MaxInfo,
          output_length \in 0..MaxOutput :
           CallHkdf(salt_length, ikm_length, output_length, info_length)

SpecHkdf == HkdfInit /\ [][HkdfNext]_vars

(***************************************************************************)
(* Double-Ratchet properties.                                              *)
(***************************************************************************)
Result(i) == Unwrap(outcome[i]).result

Recovered(i) == Unwrap(outcome[i]).plaintext = wire[i].pt

\* C1: two honest sessions that deliver every message in the order it was
\* sent decrypt every delivered message successfully to the plaintext that
\* was encrypted.
C1_InOrderExchange ==
    (inOrder /\ forged = 0) =>
        \A i \in 2..Len(wire) :
            Delivered(i) => (Result(i) = "Plaintext" /\ Recovered(i))

\* C2: whatever the order in which the honest messages are delivered, every
\* delivered message is decrypted to its plaintext, either directly or
\* tagged OutOfOrder; none is rejected, lost or decrypted to something else.
C2_AnyPermutation ==
    (forged = 0) =>
        \A i \in 2..Len(wire) :
            Delivered(i) =>
                (Result(i) \in {"Plaintext", "OutOfOrder"} /\ Recovered(i))

FirstExchange ==
    /\ last.op = "decrypt_first_message"
    /\ forged = 0
    /\ wire[last.idx].msg.message_number = 0

FirstExchangeCommon ==
    /\ last.message_key = Some(Unwrap(wire[last.idx].msg.message).key)
    /\ last.plaintext = wire[last.idx].pt
    /\ session["Initiator"].state = "Established"
    /\ session["Initiator"].sending_chain_length = 0
    /\ session["Initiator"].receiving_chain_length = 1

\* C3 (as claimed): after the first exchange the Initiator holds the same
\* message key and plaintext, is Established with sending_chain_length 0 and
\* receiving_chain_length 1, and its root-chain key equals the Addressee's.
C3_FirstExchangeSameRoot ==
    FirstExchange =>
        /\ FirstExchangeCommon
        /\ session["Initiator"].root_chain_key = session["Addressee"].root_chain_key

\* C3 (amended): as above, but the root-chain key the Initiator derives for
\* the receiving chain equals the Addressee's, and the root-chain key of the
\* emitted session is one root-KDF step further: the root KDF applied to the
\* Addressee's root-chain key and the Diffie-Hellman secret of the
\* Initiator's fresh key pair with the Addressee's public key.
C3_FirstExchange ==
    FirstExchange =>
        /\ FirstExchangeCommon
        /\ last.root = session["Addressee"].root_chain_key
        /\ session["Initiator"].root_chain_key =
               Some(RootDerive(Unwrap(session["Addressee"].root_chain_key),
                               SharedSecret(Unwrap(session["Initiator"].diffie_hellman_private_key),
                                            session["Addressee"].diffie_hellman_public_key)).chain)

C3_Witness ==
    /\ FirstExchange
    /\ last.plaintext = wire[last.idx].pt
    /\ last.plaintext # Garbage
    /\ session["Addressee"].sending_chain_length > 0

FailedDecrypt(l) ==
    /\ l.op = "decrypt_message"
    /\ l.result \in {"InvalidMessageHeader", "UnknownMessage"}

\* C4: a decrypt_message call that fails with InvalidMessageHeader or
\* UnknownMessage leaves every field of the session as it was, so every
\* message on the wire gets the same answer after the call as before it.
C4_FailedDecryptKeepsSession ==
    [][FailedDecrypt(last') =>
          /\ session' = session
          /\ \A i \in 2..Len(wire) :
                 decrypt_message(session'[last'.party], keys', wire[i].msg)
                     = decrypt_message(session[last'.party], keys, wire[i].msg)]_vars

C4_Witness ==
    /\ FailedDecrypt(last)
    /\ session[last.party].receiving_chain_length > 0
    /\ Len(wire) > 2

\* C5: decrypt_message on an Established session ends with one of the four
\* outcomes plaintext, OutOfOrder, InvalidMessageHeader, UnknownMessage for
\* every header; it never aborts.
C5_DecryptNeverAborts ==
    (last.op = "decrypt_message") =>
        last.result \in {"Plaintext", "OutOfOrder",
                         "InvalidMessageHeader", "UnknownMessage"}

\* C6: in the Initiator phase both chain keys and the tracked remote key are
\* empty; in the Established phase the sending chain key is initialized.
C6_PhaseInvariant ==
    \A p \in Party :
        /\ session[p].state = "Initiator" =>
               /\ session[p].sending_chain_key = None
               /\ session[p].receiving_chain_key = None
               /\ session[p].diffie_hellman_received_key = None
        /\ session[p].state = "Established" => IsSome(session[p].sending_chain_key)

C6_Witness ==
    /\ last.op = "decrypt_message"
    /\ last.result = "Plaintext"
    /\ session[last.party].state = "Established"
    /\ \E i \in 2..Len(wire) : wire[i].from = last.party
    /\ IsSome(session[last.party].sending_chain_key)

(***************************************************************************)
(* Shamir properties.                                                      *)
(***************************************************************************)
\* C10: reconstruct_secret applied to any threshold of the generated shares,
\* in any order, returns the secret that was shared.
C10_ShamirRoundTrip ==
    (shamir.pc = "reconstructed" /\ Len(shamir.picked) = shamir.threshold) =>
        shamir.result = shamir.secret

C10_Witness ==
    /\ shamir.pc = "reconstructed"
    /\ shamir.threshold = 3 /\ shamir.count = 4
    /\ shamir.picked[1][1] > shamir.picked[2][1]
    /\ shamir.secret = 3
    /\ shamir.result = 3
    /\ \E k \in 1..3 : shamir.picked[k][2] # shamir.secret

(***************************************************************************)
(* Joint-protocol properties.                                              *)
(***************************************************************************)
\* The value a sharing reconstructs to from the shares of the parties sel.
Reconstructed(sharing, sel) ==
    reconstruct_secret([k \in 1..Len(sel) |-> sharing[sel[k]]], Threshold)

\* C7: the shares multiply (and each position of unbounded_multiply) returns
\* reconstruct, from any threshold of the parties, to x * y in the field.
C7_BeaverProduct ==
    (mpc.pc = "multiplied") =>
        /\ Len(mpc.out) = Len(mpc.lhs)
        /\ \A k \in 1..Len(mpc.out) : \A sel \in Selections(mpc.parties, Threshold) :
               Reconstructed(mpc.out[k], sel) = (mpc.lhs[k] * mpc.rhs[k]) % P

C7_Witness ==
    /\ mpc.pc = "multiplied" /\ mpc.op = "multiply"
    /\ mpc.parties = 3
    /\ mpc.lhs = <<3>> /\ mpc.rhs = <<5>>
    /\ mpc.a = <<2>> /\ mpc.b = <<4>>
    /\ mpc.shares[1][1][1][2] # 3
    /\ Reconstructed(mpc.out[1], <<3, 1>>) = 1

\* The helper of position k reconstructs to a nonzero value.
HelperNonZero(k) == reveal_shares(mpc.helpers[k]) # Zero

\* C8: for shares of nonzero secrets, whatever the parties draw for the
\* helpers, unbounded_inverse returns one share per input, in input order,
\* and the k-th reconstructs to the inverse of the k-th secret.
C8_InverseTimesInput ==
    (mpc.pc = "inverted" /\ \A k \in 1..Len(mpc.inputs) : mpc.inputs[k] # 0) =>
        /\ Len(mpc.out) = Len(mpc.inputs)
        /\ \A k \in 1..Len(mpc.out) : \A sel \in Selections(mpc.parties, Threshold) :
               (Reconstructed(mpc.out[k], sel) * mpc.inputs[k]) % P = 1

\* The same when every helper reconstructs to a nonzero value.
InverseWithNonZeroHelpers ==
    (/\ mpc.pc = "inverted"
     /\ \A k \in 1..Len(mpc.inputs) : mpc.inputs[k] # 0 /\ HelperNonZero(k)) =>
        /\ Len(mpc.out) = Len(mpc.inputs)
        /\ \A k \in 1..Len(mpc.out) : \A sel \in Selections(mpc.parties, Threshold) :
               (Reconstructed(mpc.out[k], sel) * mpc.inputs[k]) % P = 1

\* The bits of the call are all zero.
AllZero == \A k \in 1..Len(mpc.inputs) : mpc.inputs[k] = 0

\* C9: whatever the helper sharings come out as, the share returned by
\* unbounded_shared_or reconstructs to 0 when all bits are 0 and to 1
\* otherwise.
C9_UnboundedOr ==
    (mpc.pc = "evaluated") =>
        \A sel \in Selections(mpc.parties, Threshold) :
            Reconstructed(mpc.out, sel) = (IF AllZero THEN 0 ELSE 1)

\* The same when every helper reconstructs to a nonzero value.
OrWithNonZeroHelpers ==
    (mpc.pc = "evaluated" /\ \A k \in 1..Len(mpc.helpers) : HelperNonZero(k)) =>
        \A sel \in Selections(mpc.parties, Threshold) :
            Reconstructed(mpc.out, sel) = (IF AllZero THEN 0 ELSE 1)

(***************************************************************************)
(* Linearity of the shares.                                                *)
(***************************************************************************)
\* The secret the combined sharing reconstructs to from its first shares.
FromFirst == reconstruct_secret(SubSeq(shamir.out, 1, shamir.threshold), shamir.threshold)

\* The secret the combined sharing reconstructs to from its last shares,
\* taken in descending order of the points.
FromLast ==
    reconstruct_secret([k \in 1..shamir.threshold |-> shamir.out[shamir.count + 1 - k]],
                       shamir.threshold)

\* What the claim says the combined sharing holds.
LinearExpected ==
    CASE shamir.op = "add_shares" -> (shamir.secret + shamir.other) % P
      [] shamir.op = "add_scalar" -> (shamir.secret + shamir.scalar) % P
      [] shamir.op = "multiply_scalar" -> (shamir.secret * shamir.scalar) % P
      [] OTHER -> FromFirst

\* C11: for two sharings generated with the same count and threshold,
\* add_shares point by point reconstructs to a + b, add_scalar with k on every
\* share to a + k, and multiply_scalar with k on every share to a * k.
C11_Linearity ==
    (shamir.pc = "combined") =>
        /\ FromFirst = LinearExpected
        /\ FromLast = LinearExpected

C11_Witness ==
    /\ shamir.pc = "combined" /\ shamir.op = "multiply_scalar"
    /\ shamir.threshold = 3 /\ shamir.count = 4
    /\ shamir.secret = 3 /\ shamir.scalar = 2
    /\ shamir.shares[2][2] # 3
    /\ FromLast = 6

(***************************************************************************)
(* Privacy of the opened values.                                           *)
(***************************************************************************)
\* C12: the pairs (epsilon, delta) multiply can open, over all triple values
\* a, b of the field, and the number of triples opening each pair, are the
\* same for the inputs of this run and for any other inputs x, y.
C12_BeaverPrivacy ==
    (mpc.pc = "observed") =>
        \A x, y \in Field :
            AllViews[mpc.parties][mpc.seed + 1][PairNumber(x, y)] = mpc.views

C12_Witness ==
    /\ mpc.pc = "observed"
    /\ mpc.lhs = 3 /\ mpc.rhs = 5 /\ mpc.parties = 3
    /\ mpc.views[PairNumber(2, 6)] = 1
    /\ AllViews[3][mpc.seed + 1][PairNumber(0, 0)] = mpc.views

\* The view of a zero input under the scheme, polynomial and triple of the
\* observed run.
ZeroInputView == InverseViewOf(0, mpc.scheme, mpc.seed, mpc.a)

\* C13: the values unbounded_inverse opens for a nonzero input, with their
\* multiplicities over the parties' draws, are those it opens for the input 0.
C13_InverseHidesZero ==
    (mpc.pc = "observed" /\ mpc.lhs # 0) => mpc.views = ZeroInputView

\* Nonzero inputs are not told apart from each other.
NonZeroInputsAlike ==
    (mpc.pc = "observed" /\ mpc.lhs # 0) =>
        mpc.views = InverseViewOf(1, mpc.scheme, mpc.seed, mpc.a)

(***************************************************************************)
(* Conditional selection.                                                  *)
(***************************************************************************)
\* C14: for a condition c of 0 or 1, joint_conditional_selection makes one
\* multiplication and its shares reconstruct, from any threshold of the
\* parties, to c * (x - y) + y: to x when c = 1 and to y when c = 0.
C14_ConditionalSelection ==
    (mpc.pc = "selected" /\ mpc.condition \in {0, 1}) =>
        /\ mpc.multiplications = 1
        /\ \A sel \in Selections(mpc.parties, Threshold) :
               /\ Reconstructed(mpc.out, sel)
                      = (mpc.condition * (mpc.lhs + P - mpc.rhs) + mpc.rhs) % P
               /\ Reconstructed(mpc.out, sel) = (IF mpc.condition = 1 THEN mpc.lhs ELSE mpc.rhs)

C14_Witness ==
    /\ mpc.pc = "selected" /\ mpc.parties = 3
    /\ mpc.condition = 1 /\ mpc.lhs = 3 /\ mpc.rhs = 5
    /\ mpc.multiplications = 1
    /\ Reconstructed(mpc.out, <<3, 2>>) = 3


(***************************************************************************)
(* The memo tables.                                                        *)
(***************************************************************************)
\* C15: under any interleaving of concurrent look-ups both memo tables only
\* grow: an entry, once inserted for a (row, column) of an element type, is in
\* the table after every later step with the same value, and every entry a
\* look-up has returned was stored under the element type of that look-up.
C15_CacheMonotonic ==
    [][/\ \A e \in vandermonde.upper : e \in vandermonde'.upper
       /\ \A e \in vandermonde.lower : e \in vandermonde'.lower
       /\ \A c \in Callers :
             vandermonde'.callers[c].pc # "idle" =>
                 \A e \in vandermonde'.callers[c].read :
                     e.type = vandermonde'.callers[c].type]_vars

\* Both callers missed the same upper entry; one has inserted it and the
\* other is about to insert it again, while the other element type has an
\* entry of its own in the lower table.
C15_Witness ==
    \E c \in Callers :
        LET cr == vandermonde.callers[c]
        IN /\ cr.pc = "upper"
           /\ cr.stack[Len(cr.stack)].pc = "insert"
           /\ cache_get(vandermonde.upper, cr.type, cr.stack[Len(cr.stack)].row,
                        cr.stack[Len(cr.stack)].column) # {}
           /\ \A d \in Callers : vandermonde.callers[d].pc # "idle"


(***************************************************************************)
(* Prime-field properties.                                                 *)
(***************************************************************************)
\* C16: every element an operation of the field produces (zero, one, add,
\* sub, mul, div, rem, sum, product, the conversions, inverse, the extended
\* gcd, random sampling and field_prime) has a magnitude in [0, p).
C16_MagnitudeInRange ==
    (field.pc = "done" /\ field.result = "Ok") =>
        \A k \in 1..Len(field.out) : field.out[k] \in Field

\* Apart from field_prime itself and the gcd of a pair that holds the
\* prime, every produced element is in [0, p).
InRangeApartFromPrime ==
    (/\ field.pc = "done"
     /\ field.result = "Ok"
     /\ field.op # "field_prime"
     /\ field.op # "extended_greatest_common_divisor") =>
        \A k \in 1..Len(field.out) : field.out[k] \in Field


\* C17: subtraction never underflows: for all residues a and b, a < b
\* included, sub(a, b) completes, and its result is the r in [0, p) with
\* r + b = a modulo p.
C17_SubNeverUnderflows ==
    (/\ field.pc = "done"
     /\ field.op = "sub"
     /\ field.args[1] \in Field
     /\ field.args[2] \in Field) =>
        /\ field.result = "Ok"
        /\ field.out[1] \in Field
        /\ (field.out[1] + field.args[2]) % P = field.args[1]
        /\ \A r \in Field : (r + field.args[2]) % P = field.args[1] => r = field.out[1]

\* 2 - 5 in the field of 7 elements is 4.
C17_Witness ==
    /\ field.pc = "done"
    /\ field.op = "sub"
    /\ field.args = <<2, 5>>
    /\ field.result = "Ok"
    /\ field.out = <<4>>

\* C18: for every nonzero residue a, mul(a, inverse(a)) = 1, the inverse
\* being the third component of the extended Euclidean algorithm on (p, a).
C18_InverseTimesElement ==
    (/\ field.pc = "done"
     /\ field.op = "inverse"
     /\ field.args[1] \in Field
     /\ field.args[1] # Zero) =>
        /\ field.result = "Ok"
        /\ field.out[1] = extended_greatest_common_divisor(field_prime, field.args[1])[3]
        /\ mul(field.args[1], field.out[1]) = One

\* The inverse of 3 in the field of 7 elements is 5.
C18_Witness ==
    /\ field.pc = "done"
    /\ field.op = "inverse"
    /\ field.args = <<3>>
    /\ field.out = <<5>>

\* C19: division by the zero element and the inverse of the zero element are
\* both rejected; neither yields a field element.
C19_ZeroRejected ==
    (/\ field.pc = "done"
     /\ \/ field.op = "div" /\ field.args[2] = Zero
        \/ field.op = "inverse" /\ field.args[1] = Zero) =>
        /\ field.result = "Abort"
        /\ field.out = <<>>

\* Division by the zero element ends in a panic and yields no element.
DivisionByZeroPanics ==
    (field.pc = "done" /\ field.op = "div" /\ field.args[2] = Zero) =>
        field.result = "Abort" /\ field.out = <<>>


(***************************************************************************)
(* Thresholds of generate_shares.                                          *)
(***************************************************************************)
\* C20: generate_shares(secret, n, t) fails whenever t <= 1 or n < t, and
\* produces the n shares at the points 1..n in every other case.
C20_InvalidThreshold ==
    (shamir.pc = "shared") =>
        IF shamir.threshold <= 1 \/ shamir.count < shamir.threshold
        THEN shamir.shares = "Abort"
        ELSE /\ shamir.shares # "Abort"
             /\ Len(shamir.shares) = shamir.count
             /\ \A x \in 1..shamir.count : shamir.shares[x][1] = x

\* The call fails exactly when the threshold is at most one.
FailsOnSmallThresholdOnly ==
    (shamir.pc = "shared") =>
        IF shamir.threshold <= 1
        THEN shamir.shares = "Abort"
        ELSE /\ shamir.shares # "Abort"
             /\ Len(shamir.shares) = shamir.count
             /\ \A x \in 1..shamir.count : shamir.shares[x][1] = x


(***************************************************************************)
(* Evaluation points of combined shares.                                   *)
(***************************************************************************)
\* C21: add_shares, sub_shares and sum_shares abort whenever their operands
\* do not all carry the same evaluation point, and otherwise return a share
\* at the common point (sum_shares of no share at all returns None).
C21_CommonPoint ==
    (shamir.pc = "applied") =>
        IF shamir.op = "sum_shares"
        THEN IF shamir.args = <<>> THEN shamir.out = None
             ELSE IF \E j, k \in 1..Len(shamir.args) : shamir.args[j][1] # shamir.args[k][1]
             THEN shamir.out = "Abort"
             ELSE /\ shamir.out # "Abort"
                  /\ IsSome(shamir.out)
                  /\ Unwrap(shamir.out)[1] = shamir.args[1][1]
        ELSE IF shamir.args[1][1] # shamir.args[2][1]
             THEN shamir.out = "Abort"
             ELSE /\ shamir.out # "Abort"
                  /\ shamir.out[1] = shamir.args[1][1]

\* sum_shares on two shares of the points 1 and 2 aborts.
C21_Witness ==
    /\ shamir.pc = "applied"
    /\ shamir.op = "sum_shares"
    /\ Len(shamir.args) = 2
    /\ shamir.args[1][1] = 1
    /\ shamir.args[2][1] = 2
    /\ shamir.out = "Abort"


(***************************************************************************)
(* Inversion in the single-party test setup.                               *)
(***************************************************************************)
\* C22: with TestProtocol over the field of 7 elements unbounded_inverse maps
\* every batch of nonzero inputs to their multiplicative inverses in input
\* order, and applied to its own result it returns the inputs.
C22_TestInversion ==
    (/\ mpc.pc \in {"test_inverted", "test_twice"}
     /\ \A k \in 1..Len(mpc.inputs) : mpc.inputs[k] # Zero) =>
        /\ Len(mpc.out) = Len(mpc.inputs)
        /\ \A k \in 1..Len(mpc.inputs) :
              /\ mpc.out[k][2] \in Field
              /\ mul(mpc.inputs[k], mpc.out[k][2]) = One
        /\ mpc.pc = "test_twice" =>
              /\ Len(mpc.twice) = Len(mpc.inputs)
              /\ \A k \in 1..Len(mpc.inputs) : mpc.twice[k][2] = mpc.inputs[k]

\* The inputs (4, 6) are inverted to (2, 6) and back.
C22_Witness ==
    /\ mpc.pc = "test_twice"
    /\ mpc.inputs = <<4, 6>>
    /\ mpc.out = <<<<1, 2>>, <<1, 6>>>>
    /\ mpc.twice = <<<<1, 4>>, <<1, 6>>>>


(***************************************************************************)
(* Double-Ratchet bookkeeping of decrypt_message.                          *)
(***************************************************************************)
\* The step is a decrypt_message call on the honest message of position
\* last'.idx that returned a plaintext; no forged message was delivered.
DecryptedPlaintext ==
    /\ forged' = 0
    /\ last'.op = "decrypt_message"
    /\ last'.idx > 0
    /\ last'.result = "Plaintext"

\* The key the message of position i was encrypted with.
KeyOf(i) == Unwrap(wire[i].msg.message).key

\* C23: after decrypt_message returns a plaintext for a message whose
\* public_key differs from the tracked remote key, the tracked remote key is
\* that public_key, and a following message with the same public_key is put
\* in the current receiving chain, not at the start of a new one.
C23_TrackedRemoteKey ==
    [][(/\ DecryptedPlaintext
        /\ session[last'.party].diffie_hellman_received_key
               # Some(wire[last'.idx].msg.public_key)) =>
           /\ session'[last'.party].diffie_hellman_received_key
                  = Some(wire[last'.idx].msg.public_key)
           /\ detect_missing_messages(
                  session'[last'.party],
                  Message(wire[last'.idx].msg.public_key,
                          wire[last'.idx].msg.message_number + 1,
                          wire[last'.idx].msg.previous_chain_length,
                          None)).next = 0]_vars

\* C24: every key in the out-of-order map of a session is stored under the
\* public key and the message_number of the message it decrypts.
C24_SkippedKeyIndex ==
    (forged = 0) =>
        \A p \in Party :
            \A e \in session[p].missed_messages :
                \A i \in 2..Len(wire) :
                    (wire[i].from = Peer(p) /\ KeyOf(i) = e.key) =>
                        /\ wire[i].msg.public_key = e.pk
                        /\ wire[i].msg.message_number = e.index

\* Skipped keys are stored under the index one above the message_number of
\* the message they decrypt.
SkippedKeyOneAbove ==
    (forged = 0) =>
        \A p \in Party :
            \A e \in session[p].missed_messages : e.index = e.key.n + 1

\* C25: after decrypt_message returns a plaintext for a message with
\* message_number n, receiving_chain_length is n + 1, the number of message
\* keys derived from the current receiving chain.
C25_ReceivingChainLength ==
    [][DecryptedPlaintext =>
           /\ session'[last'.party].receiving_chain_length
                  = wire[last'.idx].msg.message_number + 1
           /\ Unwrap(session'[last'.party].receiving_chain_key).n
                  = session'[last'.party].receiving_chain_length]_vars


\* The messages decrypt_message is asked about in a state: those on the
\* wire for the party, and every forged header.
Inbound(p) ==
    {wire[i].msg : i \in {j \in 2..Len(wire) : wire[j].from = Peer(p)}}
        \cup {Message(pk, n, pn, Some(ForgedCipher)) :
                  pk \in ForgedKeys(p), n \in 0..MaxHdr, pn \in 0..MaxHdr}

\* C26: decrypt_message fails with InvalidMessageHeader exactly when the
\* inbound public_key differs from the tracked remote key and the inbound
\* previous_chain_length is smaller than receiving_chain_length.
C26_InvalidMessageHeader ==
    \A p \in Party :
        session[p].state = "Established" =>
            \A m \in Inbound(p) :
                (decrypt_message(session[p], keys, m).result = "InvalidMessageHeader")
                    <=> (/\ session[p].diffie_hellman_received_key # Some(m.public_key)
                         /\ m.previous_chain_length < session[p].receiving_chain_length)

\* A session with a receiving chain has rejected a header.
C26_Witness ==
    /\ last.op = "decrypt_message"
    /\ last.result = "InvalidMessageHeader"
    /\ session[last.party].receiving_chain_length > 0
    /\ \E m \in Inbound(last.party) :
           /\ session[last.party].diffie_hellman_received_key # Some(m.public_key)
           /\ m.previous_chain_length >= session[last.party].receiving_chain_length


\* The step delivers again a message that was decrypted to its plaintext
\* before.
Replayed ==
    /\ last'.op = "decrypt_message"
    /\ last'.idx > 0
    /\ Delivered(last'.idx)
    /\ Result(last'.idx) \in {"Plaintext", "OutOfOrder"}
    /\ Recovered(last'.idx)

\* C30: a message decrypt_message has accepted, in order or out of order, is
\* never accepted again: delivering it again returns UnknownMessage and
\* leaves the session as it was.
C30_NoSecondAcceptance ==
    [][Replayed =>
           /\ last'.result = "UnknownMessage"
           /\ session' = session]_vars

\* A key of the out-of-order map is removed when it is used.
UsedKeyRemoved ==
    [][(last'.op = "decrypt_message" /\ last'.idx > 0 /\ last'.result = "OutOfOrder") =>
           /\ ContainsKey(session[last'.party].missed_messages,
                          wire[last'.idx].msg.public_key,
                          wire[last'.idx].msg.message_number)
           /\ ~ContainsKey(session'[last'.party].missed_messages,
                           wire[last'.idx].msg.public_key,
                           wire[last'.idx].msg.message_number)]_vars


AcceptedNewKey ==
    /\ last'.op = "decrypt_message" /\ last'.idx > 0
    /\ last'.result = "Plaintext"
    /\ session[last'.party].diffie_hellman_received_key
           # Some(wire[last'.idx].msg.public_key)

\* The messages a party has encrypted under a public key.
SentUnder(p, pk) ==
    {j \in 2..Len(wire) : wire[j].from = p /\ wire[j].msg.public_key = pk}

\* C28: a decrypt_message that accepts a message with a new remote public
\* key does one Diffie-Hellman ratchet step in that call: the session holds
\* a key pair that did not exist before, the sending chain is derived from
\* the new private key and the received public key, the length of the
\* replaced sending chain is recorded, sending_chain_length is 0 and
\* receiving_chain_length is 1; the next encrypt_message carries the new
\* public key, message_number 0 and as previous_chain_length the number of
\* messages sent on the replaced sending chain.
C28_RatchetStep ==
    [][AcceptedNewKey =>
        LET p == last'.party
            old == session[p]
            new == session'[p]
            pk == wire[last'.idx].msg.public_key
            rk1 == RootDerive(Unwrap(old.root_chain_key),
                       SharedSecret(Unwrap(old.diffie_hellman_private_key), pk))
            rk2 == RootDerive(rk1.chain, SharedSecret(keys, pk))
            next == encrypt_message(new, Garbage).msg
        IN /\ keys' = keys + 1
           /\ new.diffie_hellman_private_key = Some(keys)
           /\ new.diffie_hellman_public_key = PublicOf(keys)
           /\ new.diffie_hellman_public_key # old.diffie_hellman_public_key
           /\ new.sending_chain_key = Some(rk2.out)
           /\ new.previous_sending_chain_length = old.sending_chain_length
           /\ new.sending_chain_length = 0
           /\ new.receiving_chain_length = 1
           /\ next.public_key = PublicOf(keys)
           /\ next.message_number = 0
           /\ next.previous_chain_length
                  = Cardinality(SentUnder(p, old.diffie_hellman_public_key))
    ]_vars

\* A ratchet step has just replaced a sending chain that carried a message.
C28_Witness ==
    /\ last.op = "decrypt_message" /\ last.idx > 0 /\ last.result = "Plaintext"
    /\ session[last.party].diffie_hellman_private_key = Some(keys - 1)
    /\ session[last.party].sending_chain_length = 0
    /\ session[last.party].previous_sending_chain_length >= 1
    /\ session[last.party].receiving_chain_length = 1

\* C29: encrypt_message emits a message whose message_number is
\* sending_chain_length as it was before the call, whose public_key is the
\* local public key and whose previous_chain_length is
\* previous_sending_chain_length, and it adds exactly one to
\* sending_chain_length; the message number is the number of messages
\* encrypted before under the same key pair, so the encryptions between two
\* ratchet steps are numbered 0, 1, 2, ... without gap or repeat.
C29_EncryptNumbering ==
    [][last'.op = "encrypt_message" =>
        LET p == last'.party
            old == session[p]
            emitted == wire'[Len(wire')].msg
        IN /\ Len(wire') = Len(wire) + 1 /\ last'.idx = Len(wire')
           /\ wire'[Len(wire')].from = p
           /\ emitted.message_number = old.sending_chain_length
           /\ emitted.public_key = old.diffie_hellman_public_key
           /\ emitted.previous_chain_length = old.previous_sending_chain_length
           /\ session'[p].sending_chain_length = old.sending_chain_length + 1
           /\ session'[p].diffie_hellman_public_key = old.diffie_hellman_public_key
           /\ session'[Peer(p)] = session[Peer(p)]
           /\ emitted.message_number
                  = Cardinality(SentUnder(p, emitted.public_key))
    ]_vars

\* A party has just encrypted its second message under one key pair, after a
\* ratchet step that replaced a sending chain with a message on it.
C29_Witness ==
    /\ last.op = "encrypt_message"
    /\ wire[Len(wire)].msg.message_number = 1
    /\ wire[Len(wire)].msg.previous_chain_length >= 1
    /\ session[last.party].sending_chain_length = 2

(***************************************************************************)
(* Beaver multiplication, term by term.                                    *)
(***************************************************************************)
\* The differences of the k-th pair and its triple, from the secrets.
Epsilon(k) == (mpc.lhs[k] + P - mpc.a[k]) % P
Delta(k) == (mpc.rhs[k] + P - mpc.b[k]) % P

\* [c] + epsilon * [b] + delta * [a] at party i, as an integer.
LinearPart(k, i) ==
    mpc.triples[k].c[i][2] + Epsilon(k) * mpc.triples[k].b[i][2]
        + Delta(k) * mpc.triples[k].a[i][2]

\* C31: with epsilon = x - a and delta = y - b, the share every party holds
\* after a Beaver multiplication is [c] + epsilon * [b] + delta * [a]
\* + epsilon * delta at the party's point, ([a], [b], [c]) being the triple
\* consumed for the pair.
C31_BeaverCombination ==
    (mpc.pc = "multiplied") =>
        \A k \in 1..Len(mpc.out) : \A i \in 1..mpc.parties :
            mpc.out[k][i] = <<i, (LinearPart(k, i) + Epsilon(k) * Delta(k)) % P>>

\* C31 as stated: the product of the differences is subtracted.
C31_ProductSubtracted ==
    (mpc.pc = "multiplied") =>
        \A k \in 1..Len(mpc.out) : \A i \in 1..mpc.parties :
            mpc.out[k][i]
                = <<i, (LinearPart(k, i) + P * P - Epsilon(k) * Delta(k)) % P>>

\* A multiplication with distinct nonzero differences.
C31_Witness ==
    /\ mpc.pc = "multiplied" /\ mpc.op = "multiply"
    /\ mpc.parties = 3
    /\ Epsilon(1) = 2 /\ Delta(1) = 3
    /\ mpc.triples[1].a[2] # mpc.triples[1].b[2]
    /\ mpc.out[1][2][2] = (LinearPart(1, 2) + 6) % P

\* C32: unbounded_multiply on k pairs asks the supplier once, for k triples,
\* and returns k sharings in the order of the pairs; the k-th is what
\* multiply returns for the k-th pair with the k-th triple alone, so it is
\* made of [c], [b], [a] of that triple and the differences of that pair.
C32_BatchPositions ==
    (mpc.pc = "multiplied" /\ mpc.op = "unbounded_multiply") =>
        /\ mpc.requests = <<Len(mpc.shares)>>
        /\ Len(mpc.triples) = Len(mpc.shares)
        /\ Len(mpc.out) = Len(mpc.shares)
        /\ \A k \in 1..Len(mpc.shares) :
               /\ mpc.out[k] = multiply(mpc.shares[k][1], mpc.shares[k][2], mpc.triples[k])
               /\ \A i \in 1..mpc.parties :
                      mpc.out[k][i]
                          = <<i, (LinearPart(k, i) + Epsilon(k) * Delta(k)) % P>>

\* A batch of two pairs whose differences differ.
C32_Witness ==
    /\ mpc.pc = "multiplied" /\ mpc.op = "unbounded_multiply"
    /\ mpc.parties = 3
    /\ mpc.requests = <<2>> /\ Len(mpc.out) = 2
    /\ mpc.lhs = <<2, 0>> /\ mpc.rhs = <<1, 1>>
    /\ Epsilon(1) # Epsilon(2) /\ Delta(1) # Delta(2)

(***************************************************************************)
(* Shamir sharing: surplus shares and the powers of the evaluation points. *)
(***************************************************************************)
\* C33: reconstruct_secret on more shares than the threshold, all of one
\* sharing and at distinct points, returns the secret that was shared.
C33_SurplusShares ==
    (shamir.pc = "reconstructed" /\ Len(shamir.picked) > shamir.threshold) =>
        shamir.result = shamir.secret

\* Interpolation over the first threshold shares alone returns the secret.
FirstSharesSuffice ==
    (shamir.pc = "reconstructed" /\ Len(shamir.picked) > shamir.threshold) =>
        reconstruct_secret(SubSeq(shamir.picked, 1, shamir.threshold),
                           shamir.threshold) = shamir.secret

\* x^k in the field.
RECURSIVE FieldPower(_, _)
FieldPower(x, k) == IF k = 0 THEN 1 ELSE ((x % P) * FieldPower(x, k - 1)) % P

\* f(x) = secret + sum of c_k * x^k, k = 1..t-1, in the field.
RECURSIVE PolynomialValue(_, _, _)
PolynomialValue(polynomial, secret, x) ==
    IF polynomial = <<>> THEN secret % P
    ELSE (PolynomialValue(SubSeq(polynomial, 1, Len(polynomial) - 1), secret, x)
              + polynomial[Len(polynomial)] * FieldPower(x, Len(polynomial))) % P

\* C36: for every count and threshold generate_shares accepts, the call
\* returns the shares <<i, f(i)>>, i = 1..count: no power i^k leaves the
\* machine word it is formed in.
C36_ShareIsPolynomialValue ==
    (shamir.pc = "shared" /\ shamir.count >= shamir.threshold) =>
        /\ ~pow_overflows(shamir.count, shamir.threshold)
        /\ shamir.shares = [x \in 1..shamir.count |->
               <<x, PolynomialValue(shamir.polynomial, shamir.secret, x)>>]

\* While every power stays in the word the shares are the polynomial values.
SharesWhilePowersFit ==
    (shamir.pc = "shared" /\ ~pow_overflows(shamir.count, shamir.threshold)) =>
        shamir.shares = [x \in 1..shamir.count |->
            <<x, PolynomialValue(shamir.polynomial, shamir.secret, x)>>]

(***************************************************************************)
(* The look-ups of the inverted Vandermonde matrix.                        *)
(***************************************************************************)
\* What a look-up returns by the recurrences of U and L alone.
ByRecurrence(cr) ==
    CASE cr.call = "upper" -> get_inverted_vandermonde_upper(cr.row, cr.column)
      [] cr.call = "lower" -> get_inverted_vandermonde_lower(cr.row, cr.column)
      [] cr.call = "entry" ->
             get_inverted_vandermonde_entry(cr.row, cr.column, cr.matrix_size)

\* C34: whatever the tables hold and however the look-ups of two callers
\* interleave, a look-up returns the value the recurrences of U and L give
\* for its arguments; every entry of a table, and every value a call is about
\* to insert, is that value too, so two calls that missed on one key insert
\* the same value.
C34_LookupByArguments ==
    /\ \A c \in Callers :
          LET cr == vandermonde.callers[c]
          IN /\ cr.pc = "returned" => cr.value = ByRecurrence(cr)
             /\ cr.pc \in {"upper", "entry"} =>
                    \A k \in 1..Len(cr.stack) :
                        cr.stack[k].pc = "insert" =>
                            cr.stack[k].v = get_inverted_vandermonde_upper(
                                                cr.stack[k].row, cr.stack[k].column)
    /\ \A e \in vandermonde.upper :
          e.value = get_inverted_vandermonde_upper(e.row, e.column)
    /\ \A e \in vandermonde.lower :
          e.value = get_inverted_vandermonde_lower(e.row, e.column)

\* One caller has returned a nonzero entry of the matrix of size 3 that it
\* read in part from the tables, while the other is about to insert an upper
\* entry that is in the table already.
C34_Witness ==
    \E c, d \in Callers :
        LET cr == vandermonde.callers[c]
            dr == vandermonde.callers[d]
        IN /\ cr.pc = "returned" /\ cr.call = "entry" /\ cr.matrix_size = 3
           /\ cr.value # Zero /\ cr.read # {}
           /\ dr.pc \in {"upper", "entry"} /\ dr.stack # <<>>
           /\ dr.stack[Len(dr.stack)].pc = "insert"
           /\ cache_get(vandermonde.upper, dr.type, dr.stack[Len(dr.stack)].row,
                        dr.stack[Len(dr.stack)].column) # {}

\* A look-up of the caller has begun and has not returned.
Pending(c) == vandermonde.callers[c].pc \in {"upper", "lower", "entry"}

\* C35: between two locked regions no look-up holds the guard of a table:
\* the upper look-up has dropped it before it recurses and takes it again
\* only for the insert, the lower look-up takes and drops it within one
\* region.  So a caller that is polled whenever it can go on returns from
\* every look-up, whatever the other caller does.
C35_LookupsTerminate ==
    /\ [](vandermonde.guards = [upper |-> "free", lower |-> "free"])
    /\ \A c \in Callers : Pending(c) ~> (vandermonde.callers[c].pc = "returned")

\* Both callers are inside a look-up that recursed after a miss, and both
\* wait for the guard of the upper table.
C35_Witness ==
    /\ \A c \in Callers :
          /\ vandermonde.callers[c].pc \in {"upper", "entry"}
          /\ Len(vandermonde.callers[c].stack) >= 2
    /\ vandermonde.upper # {}

(***************************************************************************)
(* Hashes and keyed functions.                                             *)
(***************************************************************************)
\* C38: however a message is cut into chunks, init_hash, update_hash on the
\* chunks and finish_hash end without an abort, have digested the blocks
\* that digest_message digests on the whole message, and return its digest.
C38_ChunkingIndependent ==
    /\ hash.pc # "aborted"
    /\ hash.pc = "finished" =>
           /\ hash.state.blocks = digest_message(hash.message).state.blocks
           /\ hash.state.hash = digest_message(hash.message).hash

\* A message fed in one update_hash gives the digest of digest_message.
OneChunkAsDigest ==
    (hash.pc = "finished" /\ hash.chunks <= 1) =>
        /\ hash.state.blocks = digest_message(hash.message).state.blocks
        /\ hash.state.hash = digest_message(hash.message).hash

\* K' of a key: the key, or its digest when it is longer than a block.
ShortenedKey(key) ==
    IF Len(key) <= block_size THEN key ELSE raw(digest_message(key).hash)

\* C37: for a key of any length hmac returns, and the block it XORs with the
\* pads is K' followed by zeros up to block_size bytes.
C37_KeyBlock ==
    (hash.pc = "hmac") =>
        /\ hash.out # "Abort"
        /\ hash.padded_key # "Abort"
        /\ hash.padded_key = ShortenedKey(hash.key)
                                 \o zeros(block_size - Len(ShortenedKey(hash.key)))

\* For a key of at most block_size bytes hmac returns output_size bytes and
\* the key block is the key followed by zeros.
ShortKeyBlock ==
    (hash.pc = "hmac" /\ Len(hash.key) <= block_size) =>
        /\ hash.out # "Abort" /\ Len(hash.out) = output_size
        /\ hash.padded_key = hash.key \o zeros(block_size - Len(hash.key))

\* C39: hkdf_derive_key returns output_length bytes.
C39_OutputLength ==
    (hash.pc = "hkdf") =>
        /\ hash.out # "Abort"
        /\ Len(hash.out) = hash.output_length

\* hkdf_derive_key returns whole expansion blocks: the least multiple of
\* output_size that is not below output_length.
WholeBlocksReturned ==
    (hash.pc = "hkdf") =>
        /\ hash.out # "Abort"
        /\ Len(hash.out) = ceil_div(hash.output_length, output_size) * output_size

====
